-------------------------- MODULE ReviewJob_proofs --------------------------
(***************************************************************************)
(* Proofs about the review job, for any people, cues, texts, findings and  *)
(* rule sets, and any bound on its version.                                *)
(***************************************************************************)
EXTENDS ReviewJob, FiniteSetTheorems, TLAPS

-----------------------------------------------------------------------------
(* The operators the job is built from. *)

LEMMA EditedType ==
    ASSUME NEW track \in Track, NEW edits \in SUBSET CueEdit
    PROVE  Edited(track, edits) \in Track
<1>1. ASSUME NEW id \in CueId, \E e \in edits : e.id = id
      PROVE  (CHOOSE e \in edits : e.id = id).cue \in Cue \cup {NoCue}
  BY <1>1 DEF CueEdit
<1> QED BY <1>1 DEF Edited, Track

LEMMA HashType ==
    ASSUME NEW track \in Track, NEW id \in CueId
    PROVE  HashOf(track, id) \in Hashes
BY DEF HashOf, Hashes, Track

LEMMA DigestType ==
    ASSUME NEW track \in Track
    PROVE  ContentDigest(track) \in Digests
BY DEF Digests

\* Sets of findings are finite, so that counting none means there is none.
LEMMA FindingsFinite ==
    ASSUME NEW S \in SUBSET FindingId
    PROVE  /\ IsFiniteSet(S)
           /\ Cardinality(S) \in Nat
           /\ Cardinality(S) = 0 <=> S = {}
BY FindingIdAssumption, FS_Subset, FS_CardinalityType, FS_EmptySet

LEMMA StatisticsType ==
    ASSUME TypeOK, NEW round \in Version
    PROVE  FindingStatistics(round) \in Statistics
<1>1. InRound(round) \in SUBSET FindingId /\ OpenInRound(round) \in SUBSET FindingId
  BY DEF InRound, OpenInRound, Reported
<1>2. \A s \in Severity :
         {f \in InRound(round) : findings[f].severity = s} \in SUBSET FindingId
  BY <1>1
<1>3. \A s \in Severity :
         Cardinality({f \in InRound(round) : findings[f].severity = s}) \in Nat
  BY <1>2, FindingsFinite
<1>4. Cardinality(InRound(round)) \in Nat /\ Cardinality(OpenInRound(round)) \in Nat
  BY <1>1, FindingsFinite
<1> QED BY <1>3, <1>4 DEF FindingStatistics, Statistics

\* Answering a finding touches what it says of its answer and nothing else.
Answer == [responseRevision : Nat, workVersion : Version, cueContentHash : Hashes]

LEMMA ResolvedFinding ==
    ASSUME NEW x \in Finding, NEW answer \in Answer, version \in Version
    PROVE  /\ Resolved(x, answer) \in Finding
           /\ Resolved(x, answer).status = "resolved"
           /\ Resolved(x, answer).responseRevision = answer.responseRevision
           /\ Resolved(x, answer).responseCueHash = answer.cueContentHash
           /\ Resolved(x, answer).responseWorkVersion = version
           /\ Resolved(x, answer).cue = x.cue
           /\ Resolved(x, answer).severity = x.severity
           /\ Resolved(x, answer).wording = x.wording
           /\ Resolved(x, answer).reportedBy = x.reportedBy
           /\ Resolved(x, answer).candidateRevision = x.candidateRevision
           /\ Resolved(x, answer).reviewRound = x.reviewRound
           /\ Resolved(x, answer).previousFindingID = x.previousFindingID
BY DEF Resolved, Finding, Answer

-----------------------------------------------------------------------------
(* The operations, reduced to the nine ways in which the job can change. *)

Approves(actor) ==
    /\ status = "pending_approval"
    /\ Blocking(actor) = {}
    /\ Sign(actor, currentRevision, snapshots[currentRevision].contentDigest, version)

Steps ==
    \/ \E next \in Metadata : ReviseMetadata(next, version)
    \/ \E edits \in SUBSET CueEdit : BatchCues(edits, version)
    \/ \E actor \in Actor : Submit(actor, version)
    \/ \E actor \in Actor, reports \in Batches(Report) :
          \E links \in [DOMAIN reports -> FindingId \cup {NoFinding}] :
             BatchFindings(reports, links, actor, version)
    \/ \E actor \in Actor : \E digest : FinishReview(actor, digest, version)
    \/ \E actor \in Actor, edits \in SUBSET CueEdit : \E r, d :
          ReworkCues(edits, r, d, actor, version)
    \/ \E actor \in Actor, answers \in Batches(Answer) :
          BatchRespond(answers, actor, version)
    \/ \E actor \in Actor : Approves(actor)
    \/ \E actor \in Actor : IssueCredential(actor, version)

LEMMA EditSteps == ASSUME TypeOK, Edit(version) PROVE Steps
<1>1. ASSUME NEW edits \in EditBatch, BatchCues(edits, version)
      PROVE  Steps
  BY <1>1, EditBatchAssumption DEF Steps
<1>2. ASSUME NEW id \in CueId, NEW cue \in Cue, UpsertCue(id, cue, version)
      PROVE  Steps
  <2> DEFINE e == [op |-> IF id \in Present(cues) THEN "update" ELSE "add",
                   id |-> id, cue |-> cue]
  <2>1. {e} \in SUBSET CueEdit BY DEF CueEdit
  <2>2. BatchCues({e}, version) BY <1>2 DEF UpsertCue
  <2> QED BY <2>1, <2>2 DEF Steps
<1>3. ASSUME NEW id \in CueId, DeleteCue(id, version)
      PROVE  Steps
  <2> DEFINE e == [op |-> "delete", id |-> id, cue |-> NoCue]
  <2>1. {e} \in SUBSET CueEdit BY DEF CueEdit
  <2>2. BatchCues({e}, version) BY <1>3 DEF DeleteCue
  <2> QED BY <2>1, <2>2 DEF Steps
<1>4. ASSUME NEW next \in Metadata, ReviseMetadata(next, version)
      PROVE  Steps
  BY <1>4 DEF Steps
<1>5. ASSUME NEW actor \in Actor, Submit(actor, version)
      PROVE  Steps
  BY <1>5 DEF Steps
<1> QED BY <1>1, <1>2, <1>3, <1>4, <1>5 DEF Edit

LEMMA ReviewSteps == ASSUME TypeOK, Review(version) PROVE Steps
<1>1. PICK actor \in Actor :
        \/ \E f \in FindingId, report \in Report :
              \E link \in Links(report) : AddFinding(f, report, link, actor, version)
        \/ \E reports \in Batches(Report) :
              \E links \in [DOMAIN reports -> FindingId \cup {NoFinding}] :
                 BatchFindings(reports, links, actor, version)
        \/ \E round \in 1..reviewRound :
              FinishReview(actor, FindingStatistics(round), version)
  BY DEF Review
<1>2. ASSUME NEW f \in FindingId, NEW report \in Report, NEW link \in Links(report),
             AddFinding(f, report, link, actor, version)
      PROVE  Steps
  <2> DEFINE reports == [g \in {f} |-> report]
             links == [g \in {f} |-> link]
  <2>1. {f} \in SUBSET FindingId /\ reports \in [{f} -> Report]
    OBVIOUS
  <2>2. reports \in Batches(Report) BY <2>1 DEF Batches
  <2>3. links \in [DOMAIN reports -> FindingId \cup {NoFinding}]
    BY DEF Links, Repeated, Reported
  <2>4. BatchFindings(reports, links, actor, version) BY <1>2 DEF AddFinding
  <2> QED BY <2>2, <2>3, <2>4 DEF Steps
<1> QED BY <1>1, <1>2 DEF Steps

LEMMA ReworkSteps == ASSUME TypeOK, Rework(version) PROVE Steps
<1>1. PICK actor \in Actor :
        \/ \E edits \in EditBatch, r, s \in DOMAIN snapshots :
              ReworkCues(edits, r, snapshots[s].contentDigest, actor, version)
        \/ \E f \in FindingId, id \in Present(cues), revision \in {0, currentRevision} :
              Respond(f, HashOf(cues, id), revision, actor, version)
        \/ \E answers \in Batches([responseRevision : {currentRevision, currentRevision + 1},
                                   workVersion : {0, version},
                                   cueContentHash : {HashOf(cues, id) : id \in Present(cues)}]) :
              BatchRespond(answers, actor, version)
  BY DEF Rework
<1>2. ASSUME NEW edits \in EditBatch, NEW r, NEW d, ReworkCues(edits, r, d, actor, version)
      PROVE  Steps
  BY <1>2, EditBatchAssumption DEF Steps
<1>3. \A id \in Present(cues) : HashOf(cues, id) \in Hashes
  BY HashType DEF TypeOK, Present
<1>4. currentRevision \in Nat /\ 0 \in Version /\ version \in Version
  BY MaxVersionAssumption DEF TypeOK, Version
<1>5. ASSUME NEW f \in FindingId, NEW id \in Present(cues),
             NEW revision \in {0, currentRevision},
             Respond(f, HashOf(cues, id), revision, actor, version)
      PROVE  Steps
  <2> DEFINE a == [responseRevision |-> IF revision = 0 THEN currentRevision + 1 ELSE revision,
                   workVersion |-> 0, cueContentHash |-> HashOf(cues, id)]
             answers == [g \in {f} |-> a]
  <2>1. a \in Answer BY <1>3, <1>4 DEF Answer
  <2>2. {f} \in SUBSET FindingId /\ answers \in [{f} -> Answer] BY <2>1
  <2>3. answers \in Batches(Answer) BY <2>2 DEF Batches
  <2>4. BatchRespond(answers, actor, version) BY <1>5 DEF Respond
  <2> QED BY <2>3, <2>4 DEF Steps
<1>6. ASSUME NEW answers \in Batches([responseRevision : {currentRevision, currentRevision + 1},
                                   workVersion : {0, version},
                                   cueContentHash : {HashOf(cues, id) : id \in Present(cues)}]),
             BatchRespond(answers, actor, version)
      PROVE  Steps
  <2> DEFINE A == [responseRevision : {currentRevision, currentRevision + 1},
                   workVersion : {0, version},
                   cueContentHash : {HashOf(cues, id) : id \in Present(cues)}]
  <2>1. A \subseteq Answer BY <1>3, <1>4 DEF Answer
  <2>2. PICK T \in SUBSET FindingId : answers \in [T -> A] BY DEF Batches
  <2>3. answers \in [T -> Answer] BY <2>1, <2>2
  <2>4. answers \in Batches(Answer) BY <2>3 DEF Batches
  <2> QED BY <1>6, <2>4 DEF Steps
<1> QED BY <1>1, <1>2, <1>5, <1>6

LEMMA DeliverSteps == ASSUME TypeOK, Deliver(version) PROVE Steps
<1>1. PICK actor \in Actor :
        \/ \E r, s \in DOMAIN snapshots, reader \in Actor :
              ApproveWithChecklist(actor, r, snapshots[s].contentDigest,
                                   Checklist(reader), version)
        \/ Approve(actor, version)
        \/ IssueCredential(actor, version)
  BY DEF Deliver
<1>2. ASSUME NEW r, NEW d, NEW list, ApproveWithChecklist(actor, r, d, list, version)
      PROVE  Steps
  <2>1. Approves(actor) BY <1>2 DEF ApproveWithChecklist, Baseline, Approves
  <2> QED BY <2>1 DEF Steps
<1>3. ASSUME Approve(actor, version)
      PROVE  Steps
  <2>1. status = "pending_approval" BY <1>3 DEF Approve, Blocking
  <2>2. Approves(actor) BY <1>3, <2>1 DEF Approve, Approves
  <2> QED BY <2>2 DEF Steps
<1>4. ASSUME IssueCredential(actor, version)
      PROVE  Steps
  BY <1>4 DEF Steps
<1> QED BY <1>1, <1>2, <1>3, <1>4

LEMMA NextSteps == ASSUME TypeOK, Next PROVE Steps
BY EditSteps, ReviewSteps, ReworkSteps, DeliverSteps DEF Next

-----------------------------------------------------------------------------
(* What the two operations that write findings write. *)

\* Reported findings get identifiers that were free; the others stay.
LEMMA NewFindings ==
    ASSUME TypeOK, NEW actor \in Actor, NEW reports \in Batches(Report),
           NEW links \in [DOMAIN reports -> FindingId \cup {NoFinding}],
           BatchFindings(reports, links, actor, version)
    PROVE  /\ findings' \in [FindingId -> Finding \cup {NoFinding}]
           /\ \A f \in FindingId :
                \/ findings'[f] = findings[f]
                \/ /\ findings[f] = NoFinding
                   /\ f \in DOMAIN reports
                   /\ reports[f] \in Report
                   /\ links[f] \in Links(reports[f])
                   /\ findings'[f] = NewFinding(reports[f], links[f], actor)
                   /\ findings'[f] \in Finding
<1>1. PICK T \in SUBSET FindingId : reports \in [T -> Report] BY DEF Batches
<1>2. ASSUME NEW f \in T
      PROVE  NewFinding(reports[f], links[f], actor) \in Finding
  <2>1. reports[f].cue \in CueId /\ reports[f].wording \in Wording
    BY <1>1, ReportAssumption
  <2>2. reports[f].severity \in Severity
    BY <1>1 DEF BatchFindings
  <2>3. Normal[reports[f].wording] \in Wording
    BY <2>1, WordingAssumption
  <2>4. links[f] \in FindingId \cup {NoFinding}
    BY <1>1
  <2> QED BY <2>1, <2>2, <2>3, <2>4, MaxVersionAssumption
    DEF NewFinding, Finding, TypeOK, Hashes, Version
<1>3. findings' = [f \in FindingId |-> IF f \in T THEN NewFinding(reports[f], links[f], actor)
                                                 ELSE findings[f]]
  BY <1>1 DEF BatchFindings
<1>4. \A f \in T : findings[f] = NoFinding /\ links[f] \in Links(reports[f])
  BY <1>1 DEF BatchFindings, Reported
<1> QED BY <1>1, <1>2, <1>3, <1>4 DEF TypeOK

\* Answers go to findings that are reported and open; the others stay.
LEMMA AnsweredFindings ==
    ASSUME TypeOK, NEW actor \in Actor, NEW answers \in Batches(Answer),
           BatchRespond(answers, actor, version)
    PROVE  /\ findings' \in [FindingId -> Finding \cup {NoFinding}]
           /\ \A f \in FindingId :
                \/ findings'[f] = findings[f]
                \/ /\ f \in DOMAIN answers
                   /\ answers[f] \in Answer
                   /\ Answerable(f, answers[f])
                   /\ findings[f] \in Finding
                   /\ findings'[f] = Resolved(findings[f], answers[f])
                   /\ findings'[f] \in Finding
<1>1. PICK T \in SUBSET FindingId : answers \in [T -> Answer] BY DEF Batches
<1>2. ASSUME NEW f \in T
      PROVE  /\ findings[f] \in Finding
             /\ Answerable(f, answers[f])
             /\ Resolved(findings[f], answers[f]) \in Finding
  <2>1. Answerable(f, answers[f])
    BY <1>1 DEF BatchRespond
  <2>2. findings[f] \in Finding
    BY <2>1 DEF Answerable, Reported, TypeOK
  <2>3. answers[f] \in Answer BY <1>1
  <2> QED BY <2>1, <2>2, <2>3, ResolvedFinding DEF TypeOK
<1>3. findings' = [f \in FindingId |-> IF f \in T THEN Resolved(findings[f], answers[f])
                                                 ELSE findings[f]]
  BY <1>1 DEF BatchRespond
<1> QED BY <1>1, <1>2, <1>3 DEF TypeOK

-----------------------------------------------------------------------------
(* Types. *)

\* What typing rests on: revisions and rounds are counted together and slower
\* than versions, and a signed job carries its approval.
Counters ==
    /\ currentRevision <= version
    /\ reviewRound = currentRevision
    /\ (status = "draft") <=> (currentRevision = 0)
ApprovalRecorded == status \in Signed => approval \in Approval

TypeInv == TypeOK /\ Counters /\ ApprovalRecorded

LEMMA InitType == Init => TypeInv
<1> SUFFICES ASSUME Init PROVE TypeInv
  OBVIOUS
<1>1. EmptyTrack \in Track BY DEF EmptyTrack, Track
<1>2. snapshots \in [1..currentRevision -> Snapshot] BY DEF Init
<1>3. 0 \in Version BY MaxVersionAssumption DEF Version
<1>4. conclusions \in Seq(Conclusion) /\ reworkEdits \in Seq(ReworkEdit) BY DEF Init
<1>5. TypeOK
  BY <1>1, <1>2, <1>3, <1>4 DEF Init, TypeOK, Status, Editable
<1>6. Counters /\ ApprovalRecorded
  BY DEF Init, Counters, ApprovalRecorded, Signed
<1> QED BY <1>5, <1>6 DEF TypeInv

\* The credential that is issued names the approver.
LEMMA CredentialWritten ==
    ASSUME TypeInv, NEW actor \in Actor, IssueCredential(actor, version)
    PROVE  credential' \in Credential
<1>1. approval \in Approval
  BY DEF IssueCredential, TypeInv, ApprovalRecorded, Signed
<1> QED BY <1>1, DigestType DEF IssueCredential, Credential, Approval, TypeInv, TypeOK

LEMMA StepType == TypeInv /\ [Next]_vars => TypeInv'
<1> SUFFICES ASSUME TypeInv, [Next]_vars PROVE TypeInv'
  OBVIOUS
<1>0. CASE UNCHANGED vars
  BY <1>0 DEF TypeInv, TypeOK, Counters, ApprovalRecorded, vars
<1>1. ASSUME NEW next \in Metadata, ReviseMetadata(next, version) PROVE TypeInv'
  BY <1>1, MaxVersionAssumption
  DEF TypeInv, TypeOK, Counters, ApprovalRecorded, ReviseMetadata, Bump, Version
<1>2. ASSUME NEW edits \in SUBSET CueEdit, BatchCues(edits, version) PROVE TypeInv'
  <2>1. cues' \in Track
    BY <1>2, EditedType DEF BatchCues, ApplyCueEdits, TypeInv, TypeOK
  <2> QED BY <1>2, <2>1, MaxVersionAssumption
    DEF TypeInv, TypeOK, Counters, ApprovalRecorded, BatchCues, ApplyCueEdits, Bump, Version
<1>3. ASSUME NEW actor \in Actor, Submit(actor, version) PROVE TypeInv'
  <2>1. /\ version' \in Version /\ currentRevision' \in Version
        /\ reviewRound' \in Version
        /\ currentRevision' = currentRevision + 1
        /\ 1..currentRevision' = (1..currentRevision) \cup {currentRevision'}
    BY <1>3, MaxVersionAssumption
    DEF TypeInv, TypeOK, Counters, Submit, Bump, Version, NextRevision, NextRound
  <2>2. DOMAIN snapshots = 1..currentRevision
    BY DEF TypeInv, TypeOK
  <2> DEFINE new == [reviewRound |-> reviewRound', submittedBy |-> actor,
                     contentDigest |-> ContentDigest(cues), cues |-> cues]
  <2>3. new \in Snapshot
    BY <2>1, DigestType DEF Snapshot, TypeInv, TypeOK
  <2>4. snapshots' = [r \in 1..currentRevision' |->
                        IF r = currentRevision' THEN new ELSE snapshots[r]]
    BY <1>3, <2>1, <2>2 DEF Submit
  <2>5. snapshots' \in [1..currentRevision' -> Snapshot]
    BY <2>1, <2>3, <2>4 DEF TypeInv, TypeOK
  <2>6. TypeOK'
    BY <1>3, <2>1, <2>5 DEF TypeInv, TypeOK, Submit, Status
  <2>7. Counters' /\ ApprovalRecorded'
    BY <1>3, <2>1 DEF TypeInv, TypeOK, Counters, ApprovalRecorded, Submit, Bump,
                      NextRevision, NextRound, Signed, Version
  <2> QED BY <2>6, <2>7 DEF TypeInv
<1>4. ASSUME NEW actor \in Actor, NEW reports \in Batches(Report),
             NEW links \in [DOMAIN reports -> FindingId \cup {NoFinding}],
             BatchFindings(reports, links, actor, version)
      PROVE  TypeInv'
  <2>1. findings' \in [FindingId -> Finding \cup {NoFinding}]
    BY <1>4, NewFindings DEF TypeInv
  <2> QED BY <1>4, <2>1, MaxVersionAssumption
    DEF TypeInv, TypeOK, Counters, ApprovalRecorded, BatchFindings, Bump, Version
<1>5. ASSUME NEW actor \in Actor, NEW digest, FinishReview(actor, digest, version)
      PROVE  TypeInv'
  <2> DEFINE stats == FindingStatistics(reviewRound)
             outcome == IF stats.openBlocking > 0 THEN "rework" ELSE "pending_approval"
             c == [reviewRound |-> reviewRound, reviewer |-> actor,
                   findingSummary |-> stats, resultStatus |-> outcome]
  <2>1. stats \in Statistics BY StatisticsType DEF TypeInv, TypeOK
  <2>2. outcome \in {"rework", "pending_approval"} OBVIOUS
  <2>3. c \in Conclusion BY <2>1, <2>2 DEF Conclusion, TypeInv, TypeOK
  <2>4. conclusions' = Append(conclusions, c) /\ status' = outcome
    BY <1>5 DEF FinishReview
  <2>5. conclusions' \in Seq(Conclusion)
    BY <2>3, <2>4 DEF TypeInv, TypeOK
  <2>6. status' \in Status \ (Signed \cup {"draft"})
    BY <2>2, <2>4 DEF Status, Editable, Signed
  <2>7. status = "in_review" BY <1>5 DEF FinishReview
  <2> HIDE DEF outcome, c, stats
  <2> QED BY <1>5, <2>5, <2>6, <2>7, MaxVersionAssumption
    DEF TypeInv, TypeOK, Counters, ApprovalRecorded, FinishReview, Bump, Version
<1>6. ASSUME NEW actor \in Actor, NEW edits \in SUBSET CueEdit, NEW r, NEW d,
             ReworkCues(edits, r, d, actor, version)
      PROVE  TypeInv'
  <2> DEFINE proof == [baseRevision |-> r, baseDigest |-> d,
                       changedCueIDs |-> ChangedCues(cues, edits),
                       workVersion |-> version', actor |-> actor]
  <2>1. cues' \in Track
    BY <1>6, EditedType DEF ReworkCues, ApplyCueEdits, TypeInv, TypeOK
  <2>2. version' \in Version
    BY <1>6, MaxVersionAssumption
    DEF ReworkCues, ApplyCueEdits, Bump, TypeInv, TypeOK, Version
  <2>3. r \in Version /\ d \in Digests
    BY <1>6 DEF ReworkCues, Baseline, TypeInv, TypeOK, Snapshot
  <2>4. ChangedCues(cues, edits) \in SUBSET CueId
    BY DEF ChangedCues, CueEdit
  <2>5. proof \in ReworkEdit BY <2>2, <2>3, <2>4 DEF ReworkEdit
  <2>6. reworkEdits' = Append(reworkEdits, proof) BY <1>6 DEF ReworkCues
  <2>7. reworkEdits' \in Seq(ReworkEdit) BY <2>5, <2>6 DEF TypeInv, TypeOK
  <2> HIDE DEF proof
  <2> QED BY <1>6, <2>1, <2>2, <2>7, MaxVersionAssumption
    DEF TypeInv, TypeOK, Counters, ApprovalRecorded, ReworkCues, ApplyCueEdits, Bump, Version
<1>7. ASSUME NEW actor \in Actor, NEW answers \in Batches(Answer),
             BatchRespond(answers, actor, version)
      PROVE  TypeInv'
  <2>1. findings' \in [FindingId -> Finding \cup {NoFinding}]
    BY <1>7, AnsweredFindings DEF TypeInv
  <2> QED BY <1>7, <2>1, MaxVersionAssumption
    DEF TypeInv, TypeOK, Counters, ApprovalRecorded, BatchRespond, Bump, Version
<1>8. ASSUME NEW actor \in Actor, Approves(actor) PROVE TypeInv'
  <2>1. currentRevision \in DOMAIN snapshots
    BY <1>8 DEF Approves, Blocking
  <2>2. approval' \in Approval
    BY <1>8, <2>1 DEF Approves, Sign, Approval, TypeInv, TypeOK, Snapshot
  <2> QED BY <1>8, <2>2, MaxVersionAssumption
    DEF TypeInv, TypeOK, Counters, ApprovalRecorded, Approves, Sign, Bump, Version,
        Status, Signed
<1>9. ASSUME NEW actor \in Actor, IssueCredential(actor, version) PROVE TypeInv'
  <2>1. credential' \in Credential BY <1>9, CredentialWritten
  <2> QED BY <1>9, <2>1, MaxVersionAssumption
    DEF TypeInv, TypeOK, Counters, ApprovalRecorded, IssueCredential, Bump, Version,
        Status, Signed
<1>10. TypeOK BY DEF TypeInv
<1> QED BY <1>0, <1>1, <1>2, <1>3, <1>4, <1>5, <1>6, <1>7, <1>8, <1>9, <1>10,
           NextSteps DEF Steps

\* Every variable of the job keeps its type: revisions are counted from 1
\* without gaps, so the snapshots are those of 1..CurrentRevision.
THEOREM TypeCorrect == Spec => []TypeOK
<1>1. Spec => []TypeInv BY InitType, StepType, PTL DEF Spec
<1>2. TypeInv => TypeOK BY DEF TypeInv
<1> QED BY <1>1, <1>2, PTL

=============================================================================
