-------------------------------- MODULE Paging --------------------------------
(***************************************************************************)
(* Lists that are read page by page while they change: the timeline of a   *)
(* job, whose pages resume after a sequence number, and its findings,      *)
(* whose pages resume at an offset into a list sorted anew for each page.  *)
(*                                                                         *)
(* A walk is a client asking for one page after the other with the cursor  *)
(* the last one gave it.  The job is reduced to what its pages show; the   *)
(* operations keep the guards that decide when a list may change, and      *)
(* ReviewJob has the others.                                               *)
(***************************************************************************)
EXTENDS Integers, Sequences, FiniteSets

CONSTANTS
    JobId, job,           \* the jobs of the store, and the one that is walked
    Actor,
    CueId,
    Found,                \* what reviewers report: [cue, severity]
    Limit,                \* the page sizes clients ask for
    MaxPage,              \* longest page, 100 in the code
    TimelineDefault,      \* and the page when a client asks for no such size:
    FindingsDefault,      \* 50 and 100
    Any,                  \* no filter
    NoWalk,
    MaxEvents, MaxFindings  \* bounds on the length of the log and on the findings

Severity == {"blocking", "high", "medium", "low"}
Rank == [blocking |-> 0, high |-> 1, medium |-> 2, low |-> 3]

ASSUME JobAssumption == job \in JobId
ASSUME CueIdAssumption == IsFiniteSet(CueId)
ASSUME FoundAssumption == Found \subseteq [cue : CueId, severity : Severity]
ASSUME PageAssumption ==
    /\ Limit \subseteq Int /\ MaxPage \in Nat
    /\ TimelineDefault \in 1..MaxPage /\ FindingsDefault \in 1..MaxPage
ASSUME BoundAssumption == MaxEvents \in Nat /\ MaxFindings \in Nat

VARIABLES
    log,          \* Store.events, of all jobs; an event's sequence is its index
    status,       \* of the job
    place,        \* place[c]: Sequence of cue c in the working track; 0: no such cue
    findings,     \* the findings in the order they were reported
    reading,      \* a walk over the timeline
    listing       \* a walk over the findings

vars == <<log, status, place, findings, reading, listing>>

\* Definitions whose name ends in _Bug are seeded faults: a variant of the
\* definition that follows, which some property must notice.

Placements_Bug(P) ==
    {s \in [CueId -> 0..(Cardinality(P) + 1)] :
        /\ \A c \in CueId : s[c] > 1 <=> c \in P
        /\ \A c, d \in P : s[c] = s[d] => c = d}
\* The sequences of the cues P along the programme, whatever their times.
Placements(P) ==
    {s \in [CueId -> 0..Cardinality(P)] :
        /\ \A c \in CueId : s[c] > 0 <=> c \in P
        /\ \A c, d \in P : s[c] = s[d] => c = d}

-----------------------------------------------------------------------------
(* The page of a list. *)

\* A size that is not positive or too large is replaced.
PageSize(asked, default) == IF asked \in 1..MaxPage THEN asked ELSE default

\* PageEvents: the events after the cursor that pass the filters.
JobEvents == {i \in DOMAIN log : log[i].jobID = job}
Matching(q) ==
    {i \in JobEvents : q.type \in {Any, log[i].type} /\ q.actor \in {Any, log[i].actor}}

Due_Bug(q, cursor) == {i \in Matching(q) : i >= cursor}
Due(q, cursor) == {i \in Matching(q) : i > cursor}

TimelinePage(q, cursor) ==
    LET due == Due(q, cursor)
        size == PageSize(q.limit, TimelineDefault)
    IN  {i \in due : Cardinality({k \in due : k <= i}) <= size}

MoreEvents(q, cursor) == Cardinality(Due(q, cursor)) > PageSize(q.limit, TimelineDefault)

Chain_Bug == DOMAIN log
\* The events a chainDigest is the hash of: those of the job, filters or not.
Chain == JobEvents

\* FilterFindings.  Rounds, revisions and categories are filters on fields that
\* never change, as severities are.
Listed(q) ==
    {f \in DOMAIN findings : /\ q.severity \in {Any, findings[f].severity}
                             /\ q.status \in {Any, findings[f].status}}

\* The order of the list: cues along the programme, severity, time of report.
\* The clock is taken to advance from one report to the next.
ShownBefore(f, g) ==
    LET a == findings[f]
        b == findings[g]
    IN  \/ place[a.cue] < place[b.cue]
        \/ /\ place[a.cue] = place[b.cue]
           /\ \/ Rank[a.severity] < Rank[b.severity]
              \/ a.severity = b.severity /\ f < g

Position(q, f) == Cardinality({g \in Listed(q) : ShownBefore(g, f)})

\* The offset advances by the size that was asked for.
End_Bug(q, cursor) == cursor + q.limit
End(q, cursor) == cursor + PageSize(q.limit, FindingsDefault)

FindingsPage(q, cursor) ==
    {f \in Listed(q) :
        Position(q, f) \in cursor..(cursor + PageSize(q.limit, FindingsDefault) - 1)}

MoreFindings(q, cursor) == End(q, cursor) < Cardinality(Listed(q))

-----------------------------------------------------------------------------
(* Operations on the job and on others; each appends an event. *)

OpenSevere == {f \in DOMAIN findings : /\ findings[f].status = "open"
                                       /\ findings[f].severity \in {"blocking", "high"}}

Init ==
    /\ log = <<>>
    /\ status = "in_review"
    /\ place \in Placements(CueId)
    /\ findings = <<>>
    /\ reading = NoWalk /\ listing = NoWalk

Save(id, type, actor) ==
    /\ Len(log) < MaxEvents
    /\ log' = Append(log, [jobID |-> id, type |-> type, actor |-> actor])

\* BatchFindings; AddFinding reports one.
BatchFindings(batch, type, actor) ==
    /\ Save(job, type, actor)
    /\ Len(findings) + Len(batch) <= MaxFindings
    /\ status = "in_review"
    /\ \A i \in DOMAIN batch : place[batch[i].cue] > 0
    /\ findings' = findings \o
          [i \in DOMAIN batch |-> [cue |-> batch[i].cue, severity |-> batch[i].severity,
                                   status |-> "open"]]
    /\ UNCHANGED <<status, place, reading, listing>>

AddFinding(x, actor) == BatchFindings(<<x>>, "finding.reported", actor)

FinishReview(actor) ==
    /\ Save(job, "review.finished", actor)
    /\ status = "in_review"
    /\ status' = IF OpenSevere # {} THEN "rework" ELSE "pending_approval"
    /\ UNCHANGED <<place, findings, reading, listing>>

\* The walk over the findings, noting that what it lists has been moved.
Disturbed == IF listing = NoWalk THEN NoWalk ELSE [listing EXCEPT !.disturbed = TRUE]

ReworkCues(actor) ==
    /\ Save(job, "rework.cues.edited", actor)
    /\ status = "rework"
    /\ \E P \in SUBSET CueId \ {{}} : place' \in Placements(P)
    /\ listing' = Disturbed
    /\ UNCHANGED <<status, findings, reading>>

BatchRespond(answered, actor) ==
    /\ Save(job, "finding.response.batch", actor)
    /\ status = "rework"
    /\ answered # {}
    /\ \A f \in answered : findings[f].status = "open"
    /\ findings' = [f \in DOMAIN findings |->
          IF f \in answered THEN [findings[f] EXCEPT !.status = "resolved"] ELSE findings[f]]
    /\ listing' = IF listing # NoWalk /\ listing.query.status # Any THEN Disturbed ELSE listing
    /\ UNCHANGED <<status, place, reading>>

Submit(actor) ==
    /\ Save(job, "review.submitted", actor)
    /\ status = "rework"
    /\ OpenSevere = {}
    /\ status' = "in_review"
    /\ UNCHANGED <<place, findings, reading, listing>>

OnOtherJob(id, actor) ==
    /\ id # job
    /\ Save(id, "finding.reported", actor)
    /\ UNCHANGED <<status, place, findings, reading, listing>>

-----------------------------------------------------------------------------
(* Walks. *)

TimelineQuery == [type : {Any, "finding.reported"}, actor : {Any} \cup Actor, limit : Limit]
FindingQuery ==
    [severity : {Any} \cup {x.severity : x \in Found}, status : {Any, "open"}, limit : Limit]

\* One page of the timeline, and where the next starts: after the last event of
\* this one, which is nextCursor when there is one.
ReadTimeline(q, cursor, seen, again) ==
    LET page == TimelinePage(q, cursor) IN
    /\ \E last \in 0..Len(log) :
         /\ IF page = {} THEN last = cursor
                         ELSE last \in page /\ \A i \in page : i <= last
         /\ reading' = [query |-> q, cursor |-> last, seen |-> seen \cup page,
                        again |-> again \cup (seen \cap page),
                        more |-> MoreEvents(q, cursor), chain |-> Chain]
    /\ UNCHANGED <<log, status, place, findings, listing>>

StartTimeline(q) == reading = NoWalk /\ ReadTimeline(q, 0, {}, {})

\* A walk that has come to the end may come back for what is new.
NextTimeline ==
    /\ reading # NoWalk
    /\ ReadTimeline(reading.query, reading.cursor, reading.seen, reading.again)

\* One page of the findings; nextCursor is where it ends, if more follow.
ListFindings(q, cursor, seen, atStart, disturbed) ==
    /\ listing' = [query |-> q, cursor |-> End(q, cursor),
                   seen |-> seen \cup FindingsPage(q, cursor),
                   more |-> MoreFindings(q, cursor),
                   atStart |-> atStart, disturbed |-> disturbed]
    /\ UNCHANGED <<log, status, place, findings, reading>>

StartListing(q) == listing = NoWalk /\ ListFindings(q, 0, {}, Listed(q), FALSE)

NextListing ==
    /\ listing # NoWalk /\ listing.more
    /\ ListFindings(listing.query, listing.cursor, listing.seen, listing.atStart,
                    listing.disturbed)

Next ==
    \/ \E actor \in Actor :
         \/ \E x \in Found : AddFinding(x, actor)
         \/ \E x, y \in Found : BatchFindings(<<x, y>>, "finding.batch", actor)
         \/ FinishReview(actor)
         \/ ReworkCues(actor)
         \/ \E answered \in SUBSET DOMAIN findings : BatchRespond(answered, actor)
         \/ Submit(actor)
         \/ \E id \in JobId : OnOtherJob(id, actor)
    \/ \E q \in TimelineQuery : StartTimeline(q)
    \/ NextTimeline
    \/ \E q \in FindingQuery : StartListing(q)
    \/ NextListing

Spec == Init /\ [][Next]_vars

-----------------------------------------------------------------------------
(* Types. *)

Event == [jobID : JobId, actor : Actor,
          type : {"finding.reported", "finding.batch", "review.finished",
                  "rework.cues.edited", "finding.response.batch", "review.submitted"}]
Finding == [cue : CueId, severity : Severity, status : {"open", "resolved"}]
Reading == [query : TimelineQuery, cursor : Nat, seen : SUBSET Nat, again : SUBSET Nat,
            more : BOOLEAN, chain : SUBSET Nat]
Listing == [query : FindingQuery, cursor : Nat, seen : SUBSET Nat, more : BOOLEAN,
            atStart : SUBSET Nat, disturbed : BOOLEAN]

ASSUME NoWalkAssumption == NoWalk \notin Reading \cup Listing

TypeOK ==
    /\ log \in Seq(Event)
    /\ status \in {"in_review", "rework", "pending_approval"}
    /\ place \in [CueId -> 0..Cardinality(CueId)]
    /\ findings \in Seq(Finding)
    /\ reading \in Reading \cup {NoWalk}
    /\ listing \in Listing \cup {NoWalk}

-----------------------------------------------------------------------------
(* Safety. *)

\* However many events of this job and of others are appended between two pages,
\* a walk over the timeline has been given every event that passes its filters
\* up to its cursor, each once.
TimelineWalkIsExact ==
    reading # NoWalk =>
        /\ reading.again = {}
        /\ reading.seen = {i \in Matching(reading.query) : i <= reading.cursor}

\* A client that has walked to the end without filters can recompute the
\* chainDigest of its last page from the events it was given, and so knows that
\* none was withheld from it.
ChainCoversTheWalk ==
    /\ reading # NoWalk /\ ~ reading.more
    /\ reading.query.type = Any /\ reading.query.actor = Any
    => reading.seen = reading.chain

\* A walk over the findings that comes to its end has shown every finding that
\* was listed when it began, though findings are reported between its pages and
\* shift the offsets, unless the rework moved the list under it: by an edit of
\* the cues, or by answers to findings it lists by status.
NoFindingMissed ==
    /\ listing # NoWalk /\ ~ listing.more /\ ~ listing.disturbed
    => listing.atStart \subseteq listing.seen

=============================================================================
