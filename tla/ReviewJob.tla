------------------------------ MODULE ReviewJob ------------------------------
(***************************************************************************)
(* One review job of the caption quality service: the aggregate of         *)
(* internal/domain and the operations of application.Service on it.        *)
(*                                                                         *)
(* Every operation of the service that writes holds its mutex from reading *)
(* the job to saving it, so each is one action here.  A refused request    *)
(* changes nothing and is the action not being enabled.  "expected" is the *)
(* expectedVersion a client sends.                                         *)
(***************************************************************************)
EXTENDS CueTimeline, Sequences

CONSTANTS
    Actor,          \* who may send a request (X-Operator)
    Anonymous,      \* the actor of a request without a usable X-Operator
    NoActor,        \* the empty string of a field nobody has filled
    FindingId,      \* identifiers of findings
    NoFinding,      \* "no finding"
    Wording,        \* category and evidence of a finding, as clients write them
    Normal,         \* Normal[w]: w after TrimSpace and Fields/Join
    NoApproval, NoCredential,
    Metadata,       \* the metadata revisions clients send
    EditBatch,      \* the batches of cue edits clients send
    Report,         \* the findings reviewers send
    MaxVersion      \* bound on the version of the job

Severity == {"blocking", "high", "medium", "low"}

ASSUME ActorAssumption == NoActor \notin Actor
ASSUME WordingAssumption ==
    Normal \in [Wording -> Wording] /\ \A w \in Wording : Normal[Normal[w]] = Normal[w]
ASSUME MetadataAssumption ==
    Metadata \subseteq [complete : BOOLEAN, duration : Int, ruleSet : STRING]
ASSUME EditBatchAssumption ==
    EditBatch \subseteq SUBSET CueEdit /\ \A edits \in EditBatch : IsFiniteSet(edits)
\* Request bodies are capped at 1 MB, so identifiers are drawn from a finite set.
ASSUME FindingIdAssumption == IsFiniteSet(FindingId)
ASSUME ReportAssumption ==
    Report \subseteq [cue : CueId, severity : STRING, wording : Wording]
ASSUME MaxVersionAssumption == MaxVersion \in Nat

VARIABLES
    status, version, currentRevision, reviewRound,
    meta,               \* [complete, duration, ruleSet]
    createdBy, submittedBy, reviewFinishedBy,
    cues,               \* the working track
    findings,           \* [FindingId -> finding or NoFinding]
    snapshots,          \* snapshots[r]: the candidate frozen as revision r
    conclusions,        \* ReviewConclusions
    reworkEdits,        \* ReworkEdits
    approval,           \* the Approval* fields, once signed
    credential          \* what the store holds for the job

vars == <<status, version, currentRevision, reviewRound, meta, createdBy,
          submittedBy, reviewFinishedBy, cues, findings, snapshots,
          conclusions, reworkEdits, approval, credential>>

Editable == {"draft", "rework"}
Signed   == {"approved", "credentialed"}

(* Definitions whose name ends in _Bug are seeded faults: a variant of the
   definition that follows, which some property must notice. *)

MayEdit_ReviewBug == status \notin Signed
MayEdit_ApprovedBug == status \in Editable \cup {"approved"}
MayEdit == status \in Editable

MayRevise_Bug == status \notin Signed
MayRevise == status = "draft"

MayReport == status = "in_review"

NextRevision_Bug == currentRevision
NextRevision_ReuseBug == IF status = "draft" THEN currentRevision + 1 ELSE currentRevision
NextRevision == currentRevision + 1

NextRound_Bug == IF status = "draft" THEN reviewRound + 1 ELSE reviewRound
NextRound == reviewRound + 1

ValidMetadata(m) == m.complete /\ m.duration > 0 /\ m.ruleSet \in RuleSet

-----------------------------------------------------------------------------
(* Findings. *)

Reported == {f \in FindingId : findings[f] # NoFinding}
Fingerprint(x) == <<x.cue, x.severity, Normal[x.wording]>>
Severe(f) == findings[f].severity \in {"blocking", "high"}
OpenSevere == {f \in Reported : findings[f].status # "resolved" /\ Severe(f)}

InRound(round) == {f \in Reported : findings[f].reviewRound = round}

OpenInRound_Bug(round) ==
    {f \in InRound(round) : f \in OpenSevere /\ findings[f].severity = "blocking"}
OpenInRound(round) == InRound(round) \cap OpenSevere

FindingStatistics(round) ==
    [reviewRound  |-> round,
     total        |-> Cardinality(InRound(round)),
     bySeverity   |-> [s \in Severity |->
                         Cardinality({f \in InRound(round) : findings[f].severity = s})],
     openBlocking |-> Cardinality(OpenInRound(round))]

\* The resolved findings a new report repeats.
Repeated_Bug(report) ==
    {p \in Reported : /\ findings[p].status = "resolved"
                      /\ findings[p].cue = report.cue
                      /\ findings[p].wording = Normal[report.wording]}
Repeated(report) ==
    {p \in Reported : /\ findings[p].status = "resolved"
                      /\ Fingerprint(findings[p]) = Fingerprint(report)}

\* previousFindingID: the one the client names, or else any such finding of an
\* earlier candidate (the code walks a map).
Links(report) ==
    LET earlier == {p \in Repeated(report) :
                       findings[p].candidateRevision < currentRevision}
    IN  Repeated(report) \cup (IF earlier = {} THEN {NoFinding} ELSE {})

\* ClosurePreflight: the <<code, finding>> pairs it reports.
Answered == {f \in Reported : findings[f].status = "resolved"}
Proved(f) ==
    \E i \in DOMAIN reworkEdits :
        /\ reworkEdits[i].workVersion = findings[f].responseWorkVersion
        /\ reworkEdits[i].baseRevision = findings[f].candidateRevision
        /\ findings[f].cue \in reworkEdits[i].changedCueIDs
HashOf(track, id) == IF track[id] = NoCue THEN <<>> ELSE ContentHash(track[id])

WrongRevision(f) == findings[f].responseRevision # currentRevision + 1

OtherContent_Bug(f) == FALSE
OtherContent(f) ==
    /\ findings[f].cue \in Present(cues)
    /\ HashOf(cues, findings[f].cue) # findings[f].responseCueHash

Unchanged(f) ==
    LET old == snapshots[findings[f].candidateRevision].cues
    IN  /\ findings[f].cue \in Present(old)
        /\ HashOf(cues, findings[f].cue) = HashOf(old, findings[f].cue)

ClosureItems_Bug ==
    {<<"UNANSWERED", f>> : f \in InRound(reviewRound) \ Answered}
ClosureItems ==
         {<<"UNANSWERED", f>> : f \in Reported \ Answered}
    \cup {<<"REVISION_MISMATCH", f>> : f \in {a \in Answered : WrongRevision(a)}}
    \cup {<<"CUE_MISSING", f>> :
            f \in {a \in Answered : findings[a].cue \notin Present(cues)}}
    \cup {<<"RESPONSE_HASH_MISMATCH", f>> : f \in {a \in Answered : OtherContent(a)}}
    \cup {<<"RESPONSE_UNCHANGED", f>> : f \in {a \in Answered : Unchanged(a)}}
    \cup {<<"REWORK_PROOF_MISSING", f>> :
            f \in {a \in Answered : reworkEdits # <<>> /\ ~ Proved(a)}}

CanSubmit ==
    /\ MayEdit
    /\ Present(cues) # {}
    /\ CueQualityIssues(cues, meta.duration) = {}
    /\ CoverageIssues(cues, meta) = {}
    /\ status = "rework" =>
         /\ OpenSevere = {}
         /\ \A item \in ClosureItems : ~ Severe(item[2])

-----------------------------------------------------------------------------
(* Who may do what. *)

MayReview(actor) == actor \notin {Anonymous, createdBy, submittedBy}
MayRework(actor) == actor \notin {Anonymous, reviewFinishedBy}
SeparateDuty_Bug(actor) == actor \notin {createdBy, submittedBy}
SeparateDuty(actor) == actor \notin {createdBy, submittedBy, reviewFinishedBy}

\* The optimistic lock every change goes through.
Bump(expected) ==
    /\ version = expected
    /\ expected < MaxVersion
    /\ version' = expected + 1

-----------------------------------------------------------------------------
Init ==
    /\ status = "draft" /\ version = 0 /\ currentRevision = 0 /\ reviewRound = 0
    /\ meta \in {m \in Metadata : ValidMetadata(m)}
    /\ createdBy \in Actor /\ submittedBy = NoActor /\ reviewFinishedBy = NoActor
    /\ cues = EmptyTrack
    /\ findings = [f \in FindingId |-> NoFinding]
    /\ snapshots = <<>> /\ conclusions = <<>> /\ reworkEdits = <<>>
    /\ approval = NoApproval /\ credential = NoCredential

ReviseMetadata(next, expected) ==
    /\ Bump(expected)
    /\ MayRevise
    /\ ValidMetadata(next)
    /\ Present(cues) # {} =>
         \E o \in StartOrders(cues) : ValidateCues(cues, next.duration, o)
    /\ meta' = next
    /\ UNCHANGED <<status, currentRevision, reviewRound, createdBy, submittedBy,
                   reviewFinishedBy, cues, findings, snapshots, conclusions,
                   reworkEdits, approval, credential>>

ApplyCueEdits(edits, expected) ==
    /\ Bump(expected)
    /\ MayEdit
    /\ EditsApply(cues, edits, meta.duration)
    /\ cues' = Edited(cues, edits)
    /\ UNCHANGED <<status, currentRevision, reviewRound, meta, createdBy,
                   submittedBy, reviewFinishedBy, findings, snapshots,
                   conclusions, approval, credential>>

\* The service lets BatchCues, UpsertCue and DeleteCue run on a job in rework:
\* it is the HTTP layer that sends rework edits to ReworkCues.
BatchCues(edits, expected) ==
    ApplyCueEdits(edits, expected) /\ UNCHANGED reworkEdits

UpsertCue(id, cue, expected) ==
    BatchCues({[op |-> IF id \in Present(cues) THEN "update" ELSE "add",
                id |-> id, cue |-> cue]}, expected)

DeleteCue(id, expected) ==
    BatchCues({[op |-> "delete", id |-> id, cue |-> NoCue]}, expected)

Baseline_Bug(revision, digest) == revision \in DOMAIN snapshots
Baseline(revision, digest) ==
    /\ revision = currentRevision
    /\ revision \in DOMAIN snapshots
    /\ digest = snapshots[revision].contentDigest

ReworkCues(edits, baseRevision, baseDigest, actor, expected) ==
    /\ status = "rework"
    /\ MayRework(actor)
    /\ Baseline(baseRevision, baseDigest)
    /\ ApplyCueEdits(edits, expected)
    /\ reworkEdits' = Append(reworkEdits,
          [baseRevision  |-> baseRevision, baseDigest |-> baseDigest,
           changedCueIDs |-> ChangedCues(cues, edits),
           workVersion   |-> version', actor |-> actor])

Submit(actor, expected) ==
    /\ Bump(expected)
    /\ CanSubmit
    /\ status' = "in_review"
    /\ currentRevision' = NextRevision
    /\ reviewRound' = NextRound
    /\ submittedBy' = actor
    /\ reviewFinishedBy' = NoActor
    /\ snapshots' =
          [r \in DOMAIN snapshots \cup {currentRevision'} |->
             IF r = currentRevision'
             THEN [reviewRound |-> reviewRound', submittedBy |-> actor,
                   contentDigest |-> ContentDigest(cues), cues |-> cues]
             ELSE snapshots[r]]
    /\ UNCHANGED <<meta, createdBy, cues, findings, conclusions, reworkEdits,
                   approval, credential>>

\* The finding a report becomes.
NewFinding(report, link, actor) ==
    [cue |-> report.cue, severity |-> report.severity,
     wording |-> Normal[report.wording], reportedBy |-> actor,
     candidateRevision |-> currentRevision, reviewRound |-> reviewRound,
     status |-> "open", previousFindingID |-> link,
     responseRevision |-> 0, responseCueHash |-> <<>>, responseWorkVersion |-> 0]

\* BatchFindings; reports and links are functions on the identifiers given to
\* the new findings.
BatchFindings(reports, links, actor, expected) ==
    LET new == DOMAIN reports IN
    /\ Bump(expected)
    /\ MayReport
    /\ MayReview(actor)
    /\ new # {}
    /\ \A f \in new :
         /\ f \notin Reported
         /\ reports[f].severity \in Severity
         /\ reports[f].cue \in Present(cues)
         /\ links[f] \in Links(reports[f])
         /\ \A g \in Reported : findings[g].candidateRevision = currentRevision
                                  => Fingerprint(findings[g]) # Fingerprint(reports[f])
    /\ \A f, g \in new : Fingerprint(reports[f]) = Fingerprint(reports[g]) => f = g
    /\ findings' = [f \in FindingId |->
         IF f \in new THEN NewFinding(reports[f], links[f], actor) ELSE findings[f]]
    /\ UNCHANGED <<status, currentRevision, reviewRound, meta, createdBy,
                   submittedBy, reviewFinishedBy, cues, snapshots, conclusions,
                   reworkEdits, approval, credential>>

AddFinding(f, report, link, actor, expected) ==
    BatchFindings([g \in {f} |-> report], [g \in {f} |-> link], actor, expected)

\* digest is the findingSummaryDigest the reviewer was given.
FinishReview(actor, digest, expected) ==
    LET stats == FindingStatistics(reviewRound)
        outcome == IF stats.openBlocking > 0 THEN "rework" ELSE "pending_approval"
    IN
    /\ Bump(expected)
    /\ status = "in_review"
    /\ MayReview(actor)
    /\ digest = stats
    /\ conclusions # <<>> => conclusions[Len(conclusions)].reviewRound # reviewRound
    /\ conclusions' = Append(conclusions,
          [reviewRound |-> reviewRound, reviewer |-> actor,
           findingSummary |-> stats, resultStatus |-> outcome])
    /\ status' = outcome
    /\ reviewFinishedBy' = actor
    /\ UNCHANGED <<currentRevision, reviewRound, meta, createdBy, submittedBy,
                   cues, findings, snapshots, reworkEdits, approval, credential>>

\* What ApplyFindingResponses demands of the answer to finding f; the service
\* refuses one without a cue hash.
Answerable(f, answer) ==
    LET cue == findings[f].cue
        old == snapshots[findings[f].candidateRevision].cues
        last == reworkEdits[Len(reworkEdits)]
    IN
    /\ f \in Reported \ Answered
    /\ answer.responseRevision = currentRevision + 1
    /\ answer.responseRevision \notin DOMAIN snapshots
    /\ answer.workVersion \in {0, version}
    /\ cue \in Present(cues)
    /\ answer.cueContentHash = HashOf(cues, cue)
    /\ HashOf(old, cue) # HashOf(cues, cue)
    /\ reworkEdits # <<>> =>
         last.workVersion = version /\ cue \in last.changedCueIDs

\* Finding x with its answer.
Resolved(x, answer) ==
    [x EXCEPT !.status = "resolved",
              !.responseRevision = answer.responseRevision,
              !.responseCueHash = answer.cueContentHash,
              !.responseWorkVersion = version]

\* BatchRespond; answers is a function on the findings answered.
BatchRespond(answers, actor, expected) ==
    /\ Bump(expected)
    /\ status = "rework"
    /\ MayRework(actor)
    /\ DOMAIN answers # {}
    /\ \A f \in DOMAIN answers : Answerable(f, answers[f])
    /\ findings' = [f \in FindingId |->
         IF f \in DOMAIN answers
         THEN Resolved(findings[f], answers[f]) ELSE findings[f]]
    /\ UNCHANGED <<status, currentRevision, reviewRound, meta, createdBy,
                   submittedBy, reviewFinishedBy, cues, snapshots, conclusions,
                   reworkEdits, approval, credential>>

Respond(f, hash, revision, actor, expected) ==
    BatchRespond([g \in {f} |->
        [responseRevision |-> IF revision = 0 THEN currentRevision + 1 ELSE revision,
         workVersion |-> 0, cueContentHash |-> hash]], actor, expected)

Concluded ==
    conclusions # <<>> /\ conclusions[Len(conclusions)].reviewRound = reviewRound

\* ApprovalReadiness of the current revision: the checks that block.
Blocking(actor) ==
         {c \in {"STATUS_NOT_READY"} : status # "pending_approval"}
    \cup {c \in {"CONCLUSION_MISSING"} : ~ Concluded}
    \cup {c \in {"DUTY_SEPARATION"} : ~ SeparateDuty(actor)}
    \cup {c \in {"OPEN_BLOCKING"} : OpenSevere # {}}
    \cup {c \in {"REVISION_MISSING"} : currentRevision \notin DOMAIN snapshots}

\* The list a checklistDigest is the hash of.
Checklist(actor) ==
    [candidateRevision |-> currentRevision,
     candidateDigest   |-> snapshots[currentRevision].contentDigest,
     conclusionDigest  |-> conclusions[Len(conclusions)].findingSummary,
     openBlocking      |-> Cardinality(OpenSevere),
     dutySeparation    |-> SeparateDuty(actor),
     checks            |-> Blocking(actor)]

Sign(actor, revision, digest, expected) ==
    /\ Bump(expected)
    /\ status' = "approved"
    /\ approval' = [by |-> actor, revision |-> revision, digest |-> digest]
    /\ UNCHANGED <<currentRevision, reviewRound, meta, createdBy, submittedBy,
                   reviewFinishedBy, cues, findings, snapshots, conclusions,
                   reworkEdits, credential>>

ApproveWithChecklist(actor, revision, digest, checklistDigest, expected) ==
    /\ status = "pending_approval"
    /\ Baseline(revision, digest)
    /\ checklistDigest = Checklist(actor)
    /\ Blocking(actor) = {}
    /\ Sign(actor, revision, digest, expected)

\* Approve without a checklist: the digest defaults to that of the cues.
Approve(actor, expected) ==
    /\ status \notin Signed
    /\ Blocking(actor) = {}
    /\ ContentDigest(cues) = snapshots[currentRevision].contentDigest
    /\ Sign(actor, currentRevision, ContentDigest(cues), expected)

\* Credential; the digest of the event chain it also carries is the journal's.
IssueCredential(actor, expected) ==
    /\ Bump(expected)
    /\ credential = NoCredential
    /\ status = "approved"
    /\ actor # createdBy
    /\ credential' = [revision |-> currentRevision, contentDigest |-> ContentDigest(cues),
                      approvedBy |-> approval.by, issuedBy |-> actor]
    /\ status' = "credentialed"
    /\ UNCHANGED <<currentRevision, reviewRound, meta, createdBy, submittedBy,
                   reviewFinishedBy, cues, findings, snapshots, conclusions,
                   reworkEdits, approval>>

-----------------------------------------------------------------------------
(* Requests.  What a client sends besides the bounded inputs it may only    *)
(* have read from the job: digests, revisions and content hashes.           *)

Batches(S) == UNION {[T -> S] : T \in SUBSET FindingId}

Edit(expected) ==
    \/ \E next \in Metadata : ReviseMetadata(next, expected)
    \/ \E edits \in EditBatch : BatchCues(edits, expected)
    \/ \E id \in CueId, cue \in Cue : UpsertCue(id, cue, expected)
    \/ \E id \in CueId : DeleteCue(id, expected)
    \/ \E actor \in Actor : Submit(actor, expected)

Review(expected) ==
    \E actor \in Actor :
        \/ \E f \in FindingId, report \in Report :
              \E link \in Links(report) : AddFinding(f, report, link, actor, expected)
        \/ \E reports \in Batches(Report) :
              \E links \in [DOMAIN reports -> FindingId \cup {NoFinding}] :
                 BatchFindings(reports, links, actor, expected)
        \/ \E round \in 1..reviewRound :
              FinishReview(actor, FindingStatistics(round), expected)

Rework(expected) ==
    \E actor \in Actor :
        \/ \E edits \in EditBatch, r, s \in DOMAIN snapshots :
              ReworkCues(edits, r, snapshots[s].contentDigest, actor, expected)
        \/ \E f \in FindingId, id \in Present(cues), revision \in {0, currentRevision} :
              Respond(f, HashOf(cues, id), revision, actor, expected)
        \/ \E answers \in Batches([responseRevision : {currentRevision, currentRevision + 1},
                                   workVersion : {0, version},
                                   cueContentHash : {HashOf(cues, id) : id \in Present(cues)}]) :
              BatchRespond(answers, actor, expected)

Deliver(expected) ==
    \E actor \in Actor :
        \/ \E r, s \in DOMAIN snapshots, reader \in Actor :
              ApproveWithChecklist(actor, r, snapshots[s].contentDigest,
                                   Checklist(reader), expected)
        \/ Approve(actor, expected)
        \/ IssueCredential(actor, expected)

\* A request with any other expectedVersion is refused by Bump.
Next == Edit(version) \/ Review(version) \/ Rework(version) \/ Deliver(version)

Spec == Init /\ [][Next]_vars

-----------------------------------------------------------------------------
(* Types. *)

Status == Editable \cup Signed \cup {"in_review", "pending_approval"}
Version == 0..MaxVersion
Hashes == {<<>>} \cup {ContentHash(c) : c \in Cue}
Digests == {ContentDigest(t) : t \in Track}
Finding ==
    [cue : CueId, severity : Severity, wording : Wording, reportedBy : Actor,
     candidateRevision : Version, reviewRound : Version,
     status : {"open", "resolved"}, previousFindingID : FindingId \cup {NoFinding},
     responseRevision : Nat, responseCueHash : Hashes, responseWorkVersion : Version]
Snapshot ==
    [reviewRound : Version, submittedBy : Actor, contentDigest : Digests, cues : Track]
Statistics ==
    [reviewRound : Version, total : Nat, bySeverity : [Severity -> Nat],
     openBlocking : Nat]
Conclusion ==
    [reviewRound : Version, reviewer : Actor, findingSummary : Statistics,
     resultStatus : {"rework", "pending_approval"}]
ReworkEdit ==
    [baseRevision : Version, baseDigest : Digests, changedCueIDs : SUBSET CueId,
     workVersion : Version, actor : Actor]
Approval == [by : Actor, revision : Version, digest : Digests]
Credential ==
    [revision : Version, contentDigest : Digests, approvedBy : Actor, issuedBy : Actor]

ASSUME SentinelAssumption ==
    NoFinding \notin Finding /\ NoApproval \notin Approval /\ NoCredential \notin Credential

TypeOK ==
    /\ status \in Status /\ version \in Version
    /\ currentRevision \in Version /\ reviewRound \in Version
    /\ meta \in Metadata
    /\ createdBy \in Actor
    /\ submittedBy \in Actor \cup {NoActor}
    /\ reviewFinishedBy \in Actor \cup {NoActor}
    /\ cues \in Track
    /\ findings \in [FindingId -> Finding \cup {NoFinding}]
    /\ snapshots \in [1..currentRevision -> Snapshot]
    /\ conclusions \in Seq(Conclusion) /\ reworkEdits \in Seq(ReworkEdit)
    /\ approval \in Approval \cup {NoApproval}
    /\ credential \in Credential \cup {NoCredential}

-----------------------------------------------------------------------------
(* Safety. *)

\* Once submitted, the cues under review, approval and delivery are those of
\* the frozen candidate, and its digest is theirs: no edit reaches them until
\* a review sends the job back (FreezeSubmit, IsEditable, IsImmutable).
FrozenCandidate ==
    status \notin Editable =>
        /\ currentRevision \in DOMAIN snapshots
        /\ snapshots[currentRevision].cues = cues
        /\ snapshots[currentRevision].contentDigest = ContentDigest(cues)
        /\ snapshots[currentRevision].submittedBy = submittedBy

\* A candidate is frozen for good: no later operation, a second submission
\* included, changes or drops a snapshot.
SnapshotsImmutable ==
    [][\A r \in DOMAIN snapshots :
         r \in DOMAIN snapshots' /\ snapshots'[r] = snapshots[r]]_vars

\* Every candidate ever frozen meets the rules for cues and coverage under the
\* metadata the job has now, though metadata and cues are revised apart.
SnapshotsDeliverable ==
    \A r \in DOMAIN snapshots :
        /\ Present(snapshots[r].cues) # {}
        /\ CueQualityIssues(snapshots[r].cues, meta.duration) = {}
        /\ CoverageIssues(snapshots[r].cues, meta) = {}

\* No two cues of the working track overlap, whatever lies between them, and
\* all lie in the programme: the checks compare neighbours only, and metadata
\* is revised under cues that were checked against the old one.
CuesDisjoint ==
    \A i, k \in Present(cues) :
        /\ 0 <= cues[i].start /\ cues[i].start < cues[i].end
        /\ cues[i].end <= meta.duration
        /\ i # k => cues[i].end <= cues[k].start \/ cues[k].end <= cues[i].start

\* What has passed its review has no open severe finding, of any round:
\* finishing a review counts the findings of its own round only.
NoOpenBlockingPastReview ==
    status \in {"pending_approval", "approved", "credentialed"} => OpenSevere = {}

\* Rounds are concluded once each and in order; all but the last of them sent
\* the job back.
OneConclusionPerRound ==
    /\ \A i \in DOMAIN conclusions : conclusions[i].reviewRound = i
    /\ Len(conclusions) =
          IF status \in {"draft", "in_review"} THEN reviewRound - (IF reviewRound = 0 THEN 0 ELSE 1)
                                              ELSE reviewRound
    /\ \A i \in DOMAIN conclusions :
          i < reviewRound => conclusions[i].resultStatus = "rework"

\* Four eyes, over the whole history: whoever reports on or concludes the review
\* of a candidate neither created the job nor submitted that candidate; whoever
\* concluded a review edits nothing in the rework it led to; the approver did
\* none of it for the delivered candidate, and the issuer is not the creator.
DutySeparation ==
    /\ \A f \in Reported :
         findings[f].reportedBy \notin
            {Anonymous, createdBy, snapshots[findings[f].candidateRevision].submittedBy}
    /\ \A i \in DOMAIN conclusions :
         conclusions[i].reviewer \notin {Anonymous, createdBy, snapshots[i].submittedBy}
    /\ \A i \in DOMAIN reworkEdits :
         reworkEdits[i].actor \notin
            {Anonymous, conclusions[reworkEdits[i].baseRevision].reviewer}
    /\ status \in Signed =>
         approval.by \notin {createdBy, snapshots[approval.revision].submittedBy,
                             conclusions[approval.revision].reviewer}
    /\ credential # NoCredential => credential.issuedBy # createdBy

\* A finding linked to an earlier one repeats it on a later candidate, after
\* the earlier one was answered by that candidate or one before it.
HistoryLinks ==
    \A f \in Reported :
        LET p == findings[f].previousFindingID IN
        p # NoFinding =>
            /\ p \in Answered
            /\ Fingerprint(findings[p]) = Fingerprint(findings[f])
            /\ findings[p].candidateRevision < findings[f].candidateRevision
            /\ findings[p].responseRevision <= findings[f].candidateRevision

\* The answer to a severe finding is in the candidate it was promised for: the
\* cue is there with the content answered, and that is not the content the
\* finding was about, although cues go on changing after the answer.
AnswersAreInCandidate ==
    \A f \in Reported :
        Severe(f) /\ findings[f].candidateRevision < currentRevision =>
            LET x == findings[f] IN
            /\ f \in Answered
            /\ x.responseRevision \in DOMAIN snapshots
            /\ HashOf(snapshots[x.responseRevision].cues, x.cue) = x.responseCueHash
            /\ HashOf(snapshots[x.candidateRevision].cues, x.cue) # x.responseCueHash

\* Every proof of rework is about the candidate its review sent back, and the
\* proofs are ordered as the work was.
ProofsInOrder ==
    \A i \in DOMAIN reworkEdits :
        /\ reworkEdits[i].baseRevision \in DOMAIN snapshots
        /\ reworkEdits[i].baseDigest = snapshots[reworkEdits[i].baseRevision].contentDigest
        /\ \A k \in DOMAIN reworkEdits : i < k =>
              /\ reworkEdits[i].workVersion < reworkEdits[k].workVersion
              /\ reworkEdits[i].baseRevision <= reworkEdits[k].baseRevision

\* What is signed and issued is the last frozen candidate, concluded free of
\* severe findings: the credential digests the cues anew and must agree.
CredentialAttestsReviewedCandidate ==
    /\ status \in Signed =>
         /\ approval.revision = currentRevision
         /\ approval.digest = snapshots[currentRevision].contentDigest
         /\ Concluded
         /\ conclusions[Len(conclusions)].resultStatus = "pending_approval"
         /\ conclusions[Len(conclusions)].findingSummary.openBlocking = 0
    /\ (credential # NoCredential) <=> (status = "credentialed")
    /\ credential # NoCredential =>
         /\ credential.revision = approval.revision
         /\ credential.contentDigest = approval.digest
         /\ credential.approvedBy = approval.by

\* A job gets one rework at most: ClosurePreflight asks every answered finding,
\* those of earlier rounds too, to have been answered for the next revision, so
\* after a second review that sends the job back it can never be resubmitted.
SingleRework == currentRevision <= 2

\* What the closure preflight should say of a severe finding whose answer was
\* frozen in a candidate: it is not answered for the wrong revision.
AnsweredStaysClosed ==
    status = "rework" =>
        \A f \in Answered :
            Severe(f) /\ findings[f].responseRevision \in DOMAIN snapshots =>
                <<"REVISION_MISMATCH", f>> \notin ClosureItems

\* What the message of the reading speed issue says: a batch is told that it
\* "exceeds 25 characters per second" only when a cue of it does.
ReadingSpeedIssueIsTrue ==
    \A edits \in {e \in EditBatch : BatchOK(cues, e)} :
        LET track == Edited(cues, edits) IN
        \A issue \in CueQualityIssues(track, meta.duration) :
            issue[1] = "READING_SPEED" =>
                LET c == track[issue[2]]
                IN  RuneCount[c.text] * 1000 > 25 * (c.end - c.start)

-----------------------------------------------------------------------------
(* The job implements the abstract lifecycle. *)

Phase == [draft |-> "editing", rework |-> "editing", in_review |-> "reviewing",
          pending_approval |-> "passed", approved |-> "signed",
          credentialed |-> "delivered"]

Lifecycle == INSTANCE ReviewLifecycle WITH
    Content    <- Digests,
    Nothing    <- NoCredential,
    phase      <- Phase[status],
    content    <- ContentDigest(cues),
    candidates <- [r \in 1..currentRevision |-> snapshots[r].contentDigest],
    delivered  <- IF credential = NoCredential THEN NoCredential
                                              ELSE credential.contentDigest

\* Seen through the digests clients are given, the job behaves as a lifecycle:
\* every operation is one of its steps, or changes nothing it shows.
ImplementsLifecycle == Lifecycle!Spec

=============================================================================
