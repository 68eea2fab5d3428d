-------------------------- MODULE ReviewJob_rounds --------------------------
(***************************************************************************)
(* Proofs about the rounds of review a job goes through: who did what in   *)
(* them, what concluded them, what is signed and issued in the end, and    *)
(* what the queries tell of them.                                          *)
(***************************************************************************)
EXTENDS ReviewQueries, ReviewJob_safety, FunctionTheorems

-----------------------------------------------------------------------------
(* The conclusions of the rounds. *)

Past == {"pending_approval"} \cup Signed

\* The last conclusion decided the state the job is in, and its reviewer is the
\* one the job remembers.
LastConclusion ==
    status \notin {"draft", "in_review"} =>
        LET last == conclusions[currentRevision] IN
        /\ currentRevision \in DOMAIN conclusions
        /\ last.reviewer = reviewFinishedBy
        /\ status = "rework" => last.resultStatus = "rework"
        /\ status \in Past => last.resultStatus = "pending_approval"
                              /\ last.findingSummary.openBlocking = 0

RoundsInv == FrozenInv /\ OneConclusionPerRound /\ LastConclusion

LEMMA RoundsInit == Init => RoundsInv
<1> SUFFICES ASSUME Init PROVE OneConclusionPerRound /\ LastConclusion
  BY InitType DEF RoundsInv, FrozenInv, FrozenCandidate, Init, Editable
<1> QED BY DEF Init, OneConclusionPerRound, LastConclusion

\* Finishing a review appends its conclusion, and the new state is its result.
LEMMA FinishConcludes ==
    ASSUME RoundsInv, NEW actor \in Actor, NEW digest, FinishReview(actor, digest, version)
    PROVE  /\ status = "in_review" /\ status' \in {"rework", "pending_approval"}
           /\ currentRevision \in Nat \ {0} /\ reviewRound = currentRevision
           /\ Len(conclusions) = currentRevision - 1 /\ Len(conclusions') = currentRevision
           /\ DOMAIN conclusions = 1..(currentRevision - 1)
           /\ DOMAIN conclusions' = 1..currentRevision
           /\ \A i \in DOMAIN conclusions : conclusions'[i] = conclusions[i]
           /\ LET new == conclusions'[currentRevision] IN
              /\ new.reviewRound = currentRevision
              /\ new.reviewer = actor
              /\ new.findingSummary = FindingStatistics(currentRevision)
              /\ new.resultStatus = status'
              /\ status' = "pending_approval" => new.findingSummary.openBlocking = 0
<1> DEFINE stats == FindingStatistics(reviewRound)
           outcome == IF stats.openBlocking > 0 THEN "rework" ELSE "pending_approval"
           new == [reviewRound |-> reviewRound, reviewer |-> actor,
                   findingSummary |-> stats, resultStatus |-> outcome]
<1>1. /\ status = "in_review" /\ status' = outcome
      /\ conclusions' = Append(conclusions, new)
  BY DEF FinishReview
<1>2. /\ currentRevision \in Nat \ {0} /\ reviewRound = currentRevision
      /\ conclusions \in Seq(Conclusion)
  BY <1>1 DEF RoundsInv, FrozenInv, TypeInv, TypeOK, Counters, Version
<1>3. Len(conclusions) = currentRevision - 1
  BY <1>1, <1>2 DEF RoundsInv, OneConclusionPerRound
<1>4. stats.openBlocking \in Nat
  BY StatisticsType DEF RoundsInv, FrozenInv, TypeInv, TypeOK, Statistics
<1>5. /\ outcome \in {"rework", "pending_approval"}
      /\ outcome = "pending_approval" => stats.openBlocking = 0
  BY <1>4
<1>6. /\ new.reviewRound = currentRevision
      /\ new.reviewer = actor
      /\ new.findingSummary = stats
      /\ new.resultStatus = outcome
  BY <1>2
<1> HIDE DEF stats, outcome, new
<1>7. /\ Len(conclusions') = currentRevision
      /\ DOMAIN conclusions = 1..(currentRevision - 1)
      /\ DOMAIN conclusions' = 1..currentRevision
      /\ \A i \in DOMAIN conclusions : conclusions'[i] = conclusions[i]
      /\ conclusions'[currentRevision] = new
  BY <1>1, <1>2, <1>3
<1>8. stats = FindingStatistics(currentRevision)
  BY <1>2 DEF stats
<1> QED BY <1>1, <1>2, <1>3, <1>5, <1>6, <1>7, <1>8

LEMMA RoundsStep == RoundsInv /\ [Next]_vars => RoundsInv'
<1> SUFFICES ASSUME RoundsInv, [Next]_vars PROVE OneConclusionPerRound' /\ LastConclusion'
  BY FrozenStep DEF RoundsInv
<1>1. /\ TypeInv /\ currentRevision \in Nat /\ reviewRound = currentRevision
      /\ (status = "draft") <=> (currentRevision = 0)
      /\ conclusions \in Seq(Conclusion) /\ status \in Status
  BY DEF RoundsInv, FrozenInv, TypeInv, TypeOK, Counters, Version
<1>2. ASSUME UNCHANGED <<status, currentRevision, reviewRound, reviewFinishedBy, conclusions>>
      PROVE  OneConclusionPerRound' /\ LastConclusion'
  BY <1>2 DEF RoundsInv, OneConclusionPerRound, LastConclusion, Past, Signed
<1>3. ASSUME NEW actor \in Actor, Submit(actor, version)
      PROVE  OneConclusionPerRound' /\ LastConclusion'
  <2>1. /\ status \in {"draft", "rework"} /\ status' = "in_review"
        /\ reviewRound' = reviewRound + 1 /\ conclusions' = conclusions
    BY <1>3 DEF Submit, CanSubmit, MayEdit, Editable, NextRound
  <2>2. Len(conclusions) = currentRevision
    BY <1>1, <2>1 DEF RoundsInv, OneConclusionPerRound
  <2>3. \A i \in DOMAIN conclusions : conclusions[i].resultStatus = "rework"
    BY <1>1, <2>1, <2>2 DEF RoundsInv, OneConclusionPerRound, LastConclusion
  <2> QED BY <1>1, <2>1, <2>2, <2>3
    DEF RoundsInv, OneConclusionPerRound, LastConclusion
<1>4. ASSUME NEW actor \in Actor, NEW digest, FinishReview(actor, digest, version)
      PROVE  OneConclusionPerRound' /\ LastConclusion'
  <2>1. /\ UNCHANGED <<currentRevision, reviewRound>> /\ reviewFinishedBy' = actor
    BY <1>4 DEF FinishReview
  <2>2. OneConclusionPerRound'
    BY <1>1, <1>4, <2>1, FinishConcludes DEF RoundsInv, OneConclusionPerRound
  <2>3. LastConclusion'
    BY <1>4, <2>1, FinishConcludes DEF LastConclusion, Past, Signed
  <2> QED BY <2>2, <2>3
<1>5. ASSUME NEW actor \in Actor, Approves(actor) \/ IssueCredential(actor, version)
      PROVE  OneConclusionPerRound' /\ LastConclusion'
  <2>1. /\ status \in Past /\ status' \in Signed
        /\ UNCHANGED <<currentRevision, reviewRound, reviewFinishedBy, conclusions>>
    BY <1>5 DEF Approves, Sign, IssueCredential, Past, Signed
  <2> QED BY <1>1, <2>1 DEF RoundsInv, OneConclusionPerRound, LastConclusion, Past, Signed
<1>6. CASE Next
  <2>1. Steps BY <1>1, <1>6, NextSteps DEF TypeInv
  <2> QED BY <2>1, <1>2, <1>3, <1>4, <1>5
    DEF Steps, ReviseMetadata, BatchCues, ReworkCues, ApplyCueEdits, BatchFindings,
        BatchRespond
<1> QED BY <1>2, <1>6 DEF vars

LEMMA RoundsAlways == Spec => []RoundsInv
BY RoundsInit, RoundsStep, PTL DEF Spec

\* Every round is concluded once, in order, and all but the last of them sent the
\* job back.
THEOREM RoundsConcludedOnce == Spec => []OneConclusionPerRound
<1>1. RoundsInv => OneConclusionPerRound BY DEF RoundsInv
<1> QED BY <1>1, RoundsAlways, PTL

-----------------------------------------------------------------------------
(* What is signed and issued. *)

AttestInv == RoundsInv /\ CredentialAttestsReviewedCandidate

LEMMA AttestStep == AttestInv /\ [Next]_vars => AttestInv'
<1> SUFFICES ASSUME AttestInv, [Next]_vars PROVE CredentialAttestsReviewedCandidate'
  BY RoundsStep DEF AttestInv
<1>1. /\ RoundsInv /\ TypeInv /\ RoundsInv' /\ TypeInv'
  BY RoundsStep DEF AttestInv, RoundsInv, FrozenInv
<1>2. ASSUME UNCHANGED <<approval, credential>>, status \notin Signed, status' \notin Signed
      PROVE  CredentialAttestsReviewedCandidate'
  BY <1>2 DEF AttestInv, CredentialAttestsReviewedCandidate, Signed
<1>3. ASSUME UNCHANGED <<status, approval, credential, currentRevision, reviewRound, snapshots,
                         conclusions>>
      PROVE  CredentialAttestsReviewedCandidate'
  BY <1>3 DEF AttestInv, CredentialAttestsReviewedCandidate, Concluded, Signed
<1>4. ASSUME status' \in Signed
      PROVE  /\ Concluded'
             /\ conclusions'[Len(conclusions')].resultStatus = "pending_approval"
             /\ conclusions'[Len(conclusions')].findingSummary.openBlocking = 0
  <2>1. /\ conclusions' \in Seq(Conclusion) /\ reviewRound' = currentRevision'
        /\ currentRevision' \in Nat \ {0} /\ Len(conclusions') = currentRevision'
    <3>1. /\ conclusions' \in Seq(Conclusion) /\ reviewRound' = currentRevision'
          /\ currentRevision' \in Nat
      BY <1>1 DEF TypeInv, TypeOK, Counters, Version
    <3>2. currentRevision' # 0 BY <1>1, <1>4 DEF TypeInv, Counters, Signed
    <3>3. Len(conclusions') = reviewRound'
      BY <1>1, <1>4 DEF RoundsInv, OneConclusionPerRound, Signed
    <3> QED BY <3>1, <3>2, <3>3
  <2>2. conclusions' # <<>> /\ currentRevision' \in DOMAIN conclusions'
    BY <2>1
  <2>3. conclusions'[currentRevision'].reviewRound = currentRevision'
    BY <1>1, <2>2 DEF RoundsInv, OneConclusionPerRound
  <2>4. /\ conclusions'[currentRevision'].resultStatus = "pending_approval"
        /\ conclusions'[currentRevision'].findingSummary.openBlocking = 0
    BY <1>1, <1>4 DEF RoundsInv, LastConclusion, Past, Signed
  <2> QED BY <2>1, <2>2, <2>3, <2>4 DEF Concluded
<1>5. ASSUME NEW actor \in Actor, Approves(actor)
      PROVE  CredentialAttestsReviewedCandidate'
  <2>1. /\ status = "pending_approval" /\ status' = "approved"
        /\ approval' = [by |-> actor, revision |-> currentRevision,
                        digest |-> snapshots[currentRevision].contentDigest]
        /\ UNCHANGED <<currentRevision, snapshots, credential>>
    BY <1>5 DEF Approves, Sign
  <2>2. credential = NoCredential 
    BY <2>1 DEF AttestInv, CredentialAttestsReviewedCandidate
  <2> QED BY <1>4, <2>1, <2>2 DEF CredentialAttestsReviewedCandidate, Signed
<1>6. ASSUME NEW actor \in Actor, IssueCredential(actor, version)
      PROVE  CredentialAttestsReviewedCandidate'
  <2>1. /\ status = "approved" /\ status' = "credentialed"
        /\ credential' = [revision |-> currentRevision, contentDigest |-> ContentDigest(cues),
                          approvedBy |-> approval.by, issuedBy |-> actor]
        /\ UNCHANGED <<currentRevision, snapshots, approval>>
    BY <1>6 DEF IssueCredential
  <2>2. credential' # NoCredential 
    <3>1. credential' \in Credential BY <1>1, <1>6, CredentialWritten
    <3> QED BY <3>1, SentinelAssumption
  <2>3. ContentDigest(cues) = snapshots[currentRevision].contentDigest
    BY <1>1, <2>1 DEF RoundsInv, FrozenInv, FrozenCandidate, Editable
  <2>4. /\ approval.revision = currentRevision
        /\ approval.digest = snapshots[currentRevision].contentDigest
    BY <2>1 DEF AttestInv, CredentialAttestsReviewedCandidate, Signed
  <2> QED BY <1>4, <2>1, <2>2, <2>3, <2>4 DEF CredentialAttestsReviewedCandidate, Signed
<1>7. CASE Next
  <2>1. Steps BY <1>1, <1>7, NextSteps DEF TypeInv
  <2>2. ASSUME NEW actor \in Actor, Submit(actor, version)
        PROVE  CredentialAttestsReviewedCandidate'
    BY <1>2, <2>2 DEF Submit, CanSubmit, MayEdit, Editable, Signed
  <2>3. ASSUME NEW actor \in Actor, NEW digest, FinishReview(actor, digest, version)
        PROVE  CredentialAttestsReviewedCandidate'
    BY <1>2, <2>3 DEF FinishReview, Signed
  <2> QED BY <2>1, <2>2, <2>3, <1>3, <1>5, <1>6
    DEF Steps, ReviseMetadata, BatchCues, ReworkCues, ApplyCueEdits, BatchFindings,
        BatchRespond
<1> QED BY <1>3, <1>7 DEF vars

LEMMA AttestAlways == Spec => []AttestInv
<1>1. Init => AttestInv
  BY RoundsInit DEF AttestInv, CredentialAttestsReviewedCandidate, Init, Signed
<1> QED BY <1>1, AttestStep, PTL DEF Spec

\* What is approved and issued is the last frozen candidate, whose review was
\* concluded free of severe findings; a job has a credential exactly when it is
\* in its last state.
THEOREM CredentialIsDeserved == Spec => []CredentialAttestsReviewedCandidate
<1>1. AttestInv => CredentialAttestsReviewedCandidate BY DEF AttestInv
<1> QED BY <1>1, AttestAlways, PTL

-----------------------------------------------------------------------------
(* The proofs of rework. *)

\* What is on record stays: candidates and conclusions are added, never changed.
LEMMA RecordsStay ==
    ASSUME RoundsInv, [Next]_vars
    PROVE  /\ version \in Nat /\ version' \in Nat /\ version <= version'
           /\ \A r \in DOMAIN snapshots : r \in DOMAIN snapshots' /\ snapshots'[r] = snapshots[r]
           /\ \A i \in DOMAIN conclusions :
                i \in DOMAIN conclusions' /\ conclusions'[i] = conclusions[i]
<1>1. TypeInv /\ TypeInv' BY StepType DEF RoundsInv, FrozenInv
<1>2. version \in Nat /\ version' \in Nat BY <1>1 DEF TypeInv, TypeOK, Version
<1>3. ASSUME Bump(version) PROVE version <= version'
  BY <1>2, <1>3 DEF Bump
<1>4. CASE UNCHANGED vars BY <1>2, <1>4 DEF vars
<1>5. CASE Next
  <2>1. Steps BY <1>1, <1>5, NextSteps DEF TypeInv
  <2>2. version <= version'
    BY <1>3, <2>1
    DEF Steps, ReviseMetadata, BatchCues, ReworkCues, ApplyCueEdits, Submit,
        BatchFindings, FinishReview, BatchRespond, Approves, Sign, IssueCredential
  <2>3. \A r \in DOMAIN snapshots : r \in DOMAIN snapshots' /\ snapshots'[r] = snapshots[r]
    <3>1. ASSUME NEW actor \in Actor, Submit(actor, version), NEW r \in DOMAIN snapshots
          PROVE  r \in DOMAIN snapshots' /\ snapshots'[r] = snapshots[r]
      BY <1>1, <3>1, SubmitFreezes
    <3> QED BY <1>1, <3>1, OnlySubmitFreezes
  <2>4. \A i \in DOMAIN conclusions :
           i \in DOMAIN conclusions' /\ conclusions'[i] = conclusions[i]
    <3>1. ASSUME NEW actor \in Actor, NEW digest, FinishReview(actor, digest, version),
                 NEW i \in DOMAIN conclusions
          PROVE  i \in DOMAIN conclusions' /\ conclusions'[i] = conclusions[i]
      BY <3>1, FinishConcludes
    <3> QED BY <2>1, <3>1
      DEF Steps, ReviseMetadata, BatchCues, ReworkCues, ApplyCueEdits, Submit,
          BatchFindings, BatchRespond, Approves, Sign, IssueCredential
  <2> QED BY <1>2, <2>2, <2>3, <2>4
<1> QED BY <1>4, <1>5

\* Besides edits in rework, no step proves any.
LEMMA OnlyReworkProves ==
    ASSUME TypeInv, [Next]_vars
    PROVE  \/ UNCHANGED reworkEdits
           \/ \E actor \in Actor, edits \in SUBSET CueEdit : \E r, d :
                 ReworkCues(edits, r, d, actor, version)
<1>1. CASE UNCHANGED vars BY <1>1 DEF vars
<1>2. CASE Next
  <2>1. Steps BY <1>2, NextSteps DEF TypeInv
  <2> QED BY <2>1
    DEF Steps, ReviseMetadata, BatchCues, ApplyCueEdits, Submit, BatchFindings,
        FinishReview, BatchRespond, Approves, Sign, IssueCredential
<1> QED BY <1>1, <1>2

\* The proof an edit in rework appends is about the candidate sent back.
LEMMA ReworkRecords ==
    ASSUME RoundsInv, NEW actor \in Actor, NEW edits \in SUBSET CueEdit, NEW r, NEW d,
           ReworkCues(edits, r, d, actor, version)
    PROVE  /\ Len(reworkEdits) \in Nat /\ DOMAIN reworkEdits = 1..Len(reworkEdits)
           /\ DOMAIN reworkEdits' = 1..(Len(reworkEdits) + 1)
           /\ \A i \in DOMAIN reworkEdits : reworkEdits'[i] = reworkEdits[i]
           /\ LET new == reworkEdits'[Len(reworkEdits) + 1] IN
              /\ new.baseRevision = currentRevision
              /\ new.baseDigest = snapshots[currentRevision].contentDigest
              /\ new.workVersion = version + 1
              /\ new.actor = actor
           /\ currentRevision \in DOMAIN snapshots /\ currentRevision \in DOMAIN conclusions
           /\ actor \notin {Anonymous, conclusions[currentRevision].reviewer}
           /\ UNCHANGED <<createdBy, findings, currentRevision, snapshots, conclusions,
                          approval, credential, status>>
<1> DEFINE new == [baseRevision |-> r, baseDigest |-> d,
                   changedCueIDs |-> ChangedCues(cues, edits),
                   workVersion |-> version', actor |-> actor]
<1>1. /\ r = currentRevision /\ r \in DOMAIN snapshots /\ d = snapshots[r].contentDigest
      /\ version' = version + 1 /\ status = "rework"
      /\ actor \notin {Anonymous, reviewFinishedBy}
      /\ reworkEdits' = Append(reworkEdits, new)
      /\ UNCHANGED <<createdBy, findings, currentRevision, snapshots, conclusions,
                     approval, credential, status>>
  BY DEF ReworkCues, Baseline, MayRework, ApplyCueEdits, Bump
<1>2. reworkEdits \in Seq(ReworkEdit)
  BY DEF RoundsInv, FrozenInv, TypeInv, TypeOK
<1>3. /\ currentRevision \in DOMAIN conclusions
      /\ conclusions[currentRevision].reviewer = reviewFinishedBy
  BY <1>1 DEF RoundsInv, LastConclusion
<1>4. /\ new.baseRevision = currentRevision
      /\ new.baseDigest = snapshots[currentRevision].contentDigest
      /\ new.workVersion = version + 1
      /\ new.actor = actor
  BY <1>1
<1> HIDE DEF new
<1>5. /\ Len(reworkEdits) \in Nat /\ DOMAIN reworkEdits = 1..Len(reworkEdits)
      /\ DOMAIN reworkEdits' = 1..(Len(reworkEdits) + 1)
      /\ \A i \in DOMAIN reworkEdits : reworkEdits'[i] = reworkEdits[i]
      /\ reworkEdits'[Len(reworkEdits) + 1] = new
  BY <1>1, <1>2
<1> QED BY <1>1, <1>3, <1>4, <1>5

\* A proof is no younger than the job and its review is concluded.
ProofsKnown ==
    \A i \in DOMAIN reworkEdits :
        /\ reworkEdits[i].workVersion <= version
        /\ reworkEdits[i].baseRevision \in DOMAIN conclusions

ProofsInv == RoundsInv /\ ProofsInOrder /\ ProofsKnown

LEMMA ProofsStep == ProofsInv /\ [Next]_vars => ProofsInv'
<1> SUFFICES ASSUME ProofsInv, [Next]_vars PROVE ProofsInOrder' /\ ProofsKnown'
  BY RoundsStep DEF ProofsInv
<1>1. RoundsInv /\ TypeInv /\ reworkEdits \in Seq(ReworkEdit)
  BY DEF ProofsInv, RoundsInv, FrozenInv, TypeInv, TypeOK
<1>2. \A i \in DOMAIN reworkEdits :
         /\ reworkEdits[i].workVersion \in Nat /\ reworkEdits[i].baseRevision \in Nat
         /\ reworkEdits[i].baseRevision \in DOMAIN snapshots
         /\ reworkEdits[i].baseDigest = snapshots[reworkEdits[i].baseRevision].contentDigest
         /\ reworkEdits[i].workVersion <= version
         /\ reworkEdits[i].baseRevision \in DOMAIN conclusions
         /\ \A k \in DOMAIN reworkEdits : i < k =>
              /\ reworkEdits[i].workVersion < reworkEdits[k].workVersion
              /\ reworkEdits[i].baseRevision <= reworkEdits[k].baseRevision
  <2>1. \A i \in DOMAIN reworkEdits : reworkEdits[i] \in ReworkEdit BY <1>1
  <2>2. \A i \in DOMAIN reworkEdits :
           reworkEdits[i].workVersion \in Nat /\ reworkEdits[i].baseRevision \in Nat
    BY <2>1 DEF ReworkEdit, Version
  <2> QED BY <2>2 DEF ProofsInv, ProofsInOrder, ProofsKnown
<1>3. \A i \in DOMAIN reworkEdits :
         /\ reworkEdits[i].baseRevision \in DOMAIN snapshots'
         /\ reworkEdits[i].baseDigest = snapshots'[reworkEdits[i].baseRevision].contentDigest
         /\ reworkEdits[i].workVersion <= version'
         /\ reworkEdits[i].baseRevision \in DOMAIN conclusions'
  BY <1>1, <1>2, RecordsStay
<1>4. CASE UNCHANGED reworkEdits
  BY <1>2, <1>3, <1>4 DEF ProofsInOrder, ProofsKnown
<1>5. ASSUME NEW actor \in Actor, NEW edits \in SUBSET CueEdit, NEW r, NEW d,
             ReworkCues(edits, r, d, actor, version)
      PROVE  ProofsInOrder' /\ ProofsKnown'
  <2> DEFINE n == Len(reworkEdits) + 1
  <2>1. /\ n \in Nat /\ DOMAIN reworkEdits' = DOMAIN reworkEdits \cup {n}
        /\ \A i \in DOMAIN reworkEdits : i < n /\ ~ (n < i) /\ reworkEdits'[i] = reworkEdits[i]
        /\ reworkEdits'[n].baseRevision = currentRevision
        /\ reworkEdits'[n].baseDigest = snapshots[currentRevision].contentDigest
        /\ reworkEdits'[n].workVersion = version + 1
        /\ currentRevision \in DOMAIN snapshots /\ currentRevision \in DOMAIN conclusions
        /\ UNCHANGED <<snapshots, conclusions>>
    <3>1. /\ Len(reworkEdits) \in Nat /\ DOMAIN reworkEdits = 1..Len(reworkEdits)
          /\ DOMAIN reworkEdits' = 1..n
          /\ \A i \in DOMAIN reworkEdits : reworkEdits'[i] = reworkEdits[i]
      BY <1>1, <1>5, ReworkRecords
    <3>2. /\ n \in Nat /\ 1..n = (1..Len(reworkEdits)) \cup {n}
          /\ \A i \in 1..Len(reworkEdits) : i < n /\ ~ (n < i)
      BY <3>1
    <3>3. /\ reworkEdits'[n].baseRevision = currentRevision
          /\ reworkEdits'[n].baseDigest = snapshots[currentRevision].contentDigest
          /\ reworkEdits'[n].workVersion = version + 1
          /\ currentRevision \in DOMAIN snapshots /\ currentRevision \in DOMAIN conclusions
          /\ UNCHANGED <<snapshots, conclusions>>
      BY <1>1, <1>5, ReworkRecords
    <3> QED BY <3>1, <3>2, <3>3
  <2>2. version' = version + 1 /\ version \in Nat
    BY <1>1, <1>5 DEF ReworkCues, ApplyCueEdits, Bump, TypeInv, TypeOK, Version
  <2>3. \A i \in DOMAIN reworkEdits : reworkEdits[i].baseRevision <= currentRevision
    BY <1>1, <1>2 DEF TypeInv, TypeOK
  <2> HIDE DEF n
  <2>4. ~ (n < n) BY <2>1
  <2>5. ProofsKnown'
    BY <1>3, <2>1, <2>2 DEF ProofsKnown
  <2>6. ProofsInOrder'
    BY <1>2, <1>3, <2>1, <2>2, <2>3, <2>4 DEF ProofsInOrder
  <2> QED BY <2>5, <2>6
<1> QED BY <1>1, <1>4, <1>5, OnlyReworkProves

LEMMA ProofsAlways == Spec => []ProofsInv
<1>1. Init => ProofsInv
  BY RoundsInit DEF ProofsInv, ProofsInOrder, ProofsKnown, Init
<1> QED BY <1>1, ProofsStep, PTL DEF Spec

\* Every proof of rework names the candidate that was sent back, by its digest,
\* and the proofs stand in the order of the work.
THEOREM ReworkIsProved == Spec => []ProofsInOrder
<1>1. ProofsInv => ProofsInOrder BY DEF ProofsInv
<1> QED BY <1>1, ProofsAlways, PTL

-----------------------------------------------------------------------------
(* Four eyes. *)

\* DutySeparation, by the record it is about.
ReportsApart ==
    \A f \in Reported :
        findings[f].reportedBy \notin
            {Anonymous, createdBy, snapshots[findings[f].candidateRevision].submittedBy}
ReviewsApart ==
    \A i \in DOMAIN conclusions :
        conclusions[i].reviewer \notin {Anonymous, createdBy, snapshots[i].submittedBy}
ReworkApart ==
    \A i \in DOMAIN reworkEdits :
        reworkEdits[i].actor \notin
            {Anonymous, conclusions[reworkEdits[i].baseRevision].reviewer}
ApprovalApart ==
    status \in Signed =>
        approval.by \notin {createdBy, snapshots[approval.revision].submittedBy,
                            conclusions[approval.revision].reviewer}
IssuanceApart == credential # NoCredential => credential.issuedBy # createdBy

DutyInv ==
    FindingsInv /\ AttestInv /\ ProofsInv /\ ReportsApart /\ ReviewsApart /\ ReworkApart
      /\ ApprovalApart /\ IssuanceApart

LEMMA CreatorStays == ASSUME TypeInv, [Next]_vars PROVE createdBy' = createdBy
<1>1. CASE UNCHANGED vars BY <1>1 DEF vars
<1>2. CASE Next
  <2>1. Steps BY <1>2, NextSteps DEF TypeInv
  <2> QED BY <2>1
    DEF Steps, ReviseMetadata, BatchCues, ReworkCues, ApplyCueEdits, Submit,
        BatchFindings, FinishReview, BatchRespond, Approves, Sign, IssueCredential
<1> QED BY <1>1, <1>2

LEMMA ReportsApartStep == DutyInv /\ [Next]_vars => ReportsApart'
<1> SUFFICES ASSUME DutyInv, [Next]_vars, NEW f \in Reported'
             PROVE  findings'[f].reportedBy \notin
                      {Anonymous, createdBy',
                       snapshots'[findings'[f].candidateRevision].submittedBy}
  BY DEF ReportsApart
<1>1. TypeInv /\ RoundsInv /\ f \in FindingId
  BY DEF DutyInv, AttestInv, RoundsInv, FrozenInv, Reported
<1>2. createdBy' = createdBy BY <1>1, CreatorStays
<1>3. ASSUME f \in Reported,
             findings'[f].reportedBy = findings[f].reportedBy,
             findings'[f].candidateRevision = findings[f].candidateRevision
      PROVE  findings'[f].reportedBy \notin
                {Anonymous, createdBy', snapshots'[findings'[f].candidateRevision].submittedBy}
  <2>1. findings[f].candidateRevision \in DOMAIN snapshots
    BY <1>1, <1>3 DEF DutyInv, FindingsInv, FindingsOfCandidates, TypeInv, TypeOK
  <2>2. snapshots'[findings[f].candidateRevision] = snapshots[findings[f].candidateRevision]
    BY <1>1, <2>1, RecordsStay
  <2> QED BY <1>2, <1>3, <2>2 DEF DutyInv, ReportsApart
<1>4. CASE findings'[f] = findings[f]
  BY <1>3, <1>4 DEF Reported
<1>5. ASSUME NEW actor \in Actor, NEW reports \in Batches(Report),
             NEW links \in [DOMAIN reports -> FindingId \cup {NoFinding}],
             BatchFindings(reports, links, actor, version), findings'[f] # findings[f]
      PROVE  findings'[f].reportedBy \notin
                {Anonymous, createdBy', snapshots'[findings'[f].candidateRevision].submittedBy}
  <2>1. findings'[f] = NewFinding(reports[f], links[f], actor)
    BY <1>1, <1>5, NewFindings DEF TypeInv
  <2>2. /\ findings'[f].reportedBy = actor
        /\ findings'[f].candidateRevision = currentRevision
    BY <2>1 DEF NewFinding
  <2>3. /\ status = "in_review" /\ snapshots' = snapshots
        /\ actor \notin {Anonymous, createdBy, submittedBy}
    BY <1>5 DEF BatchFindings, MayReport, MayReview
  <2>4. snapshots[currentRevision].submittedBy = submittedBy
    BY <1>1, <2>3 DEF RoundsInv, FrozenInv, FrozenCandidate, Editable
  <2> QED BY <1>2, <2>2, <2>3, <2>4
<1>6. ASSUME NEW actor \in Actor, NEW answers \in Batches(Answer),
             BatchRespond(answers, actor, version), findings'[f] # findings[f]
      PROVE  findings'[f].reportedBy \notin
                {Anonymous, createdBy', snapshots'[findings'[f].candidateRevision].submittedBy}
  <2>1. /\ answers[f] \in Answer /\ findings[f] \in Finding
        /\ findings'[f] = Resolved(findings[f], answers[f])
    BY <1>1, <1>6, AnsweredFindings DEF TypeInv
  <2>2. version \in Version /\ f \in Reported
    BY <1>1, <2>1, SentinelAssumption DEF TypeInv, TypeOK, Reported
  <2>3. /\ findings'[f].reportedBy = findings[f].reportedBy
        /\ findings'[f].candidateRevision = findings[f].candidateRevision
    BY <2>1, <2>2, ResolvedFinding
  <2> QED BY <1>3, <2>2, <2>3
<1>7. CASE Next
  <2>1. Steps BY <1>1, <1>7, NextSteps DEF TypeInv
  <2> QED BY <2>1, <1>4, <1>5, <1>6
    DEF Steps, ReviseMetadata, BatchCues, ReworkCues, ApplyCueEdits, Submit,
        FinishReview, Approves, Sign, IssueCredential
<1> QED BY <1>4, <1>7 DEF vars

LEMMA ReviewsApartStep == DutyInv /\ [Next]_vars => ReviewsApart'
<1> SUFFICES ASSUME DutyInv, [Next]_vars, NEW i \in DOMAIN conclusions'
             PROVE  conclusions'[i].reviewer \notin
                      {Anonymous, createdBy', snapshots'[i].submittedBy}
  BY DEF ReviewsApart
<1>1. TypeInv /\ RoundsInv BY DEF DutyInv, AttestInv, RoundsInv, FrozenInv
<1>2. createdBy' = createdBy BY <1>1, CreatorStays
<1>3. CASE i \in DOMAIN conclusions
  <2>1. i \in DOMAIN snapshots 
    <3>1. /\ conclusions \in Seq(Conclusion) /\ currentRevision \in Nat
          /\ reviewRound = currentRevision
      BY <1>1 DEF TypeInv, TypeOK, Counters, Version
    <3>2. Len(conclusions) <= currentRevision
      BY <1>1, <3>1 DEF RoundsInv, OneConclusionPerRound
    <3>3. DOMAIN snapshots = 1..currentRevision BY <1>1 DEF TypeInv, TypeOK
    <3> QED BY <1>3, <3>1, <3>2, <3>3
  <2>2. snapshots'[i] = snapshots[i] /\ conclusions'[i] = conclusions[i]
    BY <1>1, <1>3, <2>1, RecordsStay
  <2> QED BY <1>2, <1>3, <2>2 DEF DutyInv, ReviewsApart
<1>4. ASSUME i \notin DOMAIN conclusions, NEW actor \in Actor, NEW digest,
             FinishReview(actor, digest, version)
      PROVE  conclusions'[i].reviewer \notin {Anonymous, createdBy', snapshots'[i].submittedBy}
  <2>1. /\ i = currentRevision /\ status = "in_review"
        /\ conclusions'[i].reviewer = actor
    BY <1>1, <1>4, FinishConcludes
  <2>2. snapshots' = snapshots /\ actor \notin {Anonymous, createdBy, submittedBy}
    BY <1>4 DEF FinishReview, MayReview
  <2>3. snapshots[currentRevision].submittedBy = submittedBy
    BY <1>1, <2>1 DEF RoundsInv, FrozenInv, FrozenCandidate, Editable
  <2> QED BY <1>2, <2>1, <2>2, <2>3
<1>5. CASE conclusions' = conclusions BY <1>3, <1>5
<1>6. CASE Next
  <2>1. Steps BY <1>1, <1>6, NextSteps DEF TypeInv
  <2> QED BY <2>1, <1>3, <1>4, <1>5
    DEF Steps, ReviseMetadata, BatchCues, ReworkCues, ApplyCueEdits, Submit,
        BatchFindings, BatchRespond, Approves, Sign, IssueCredential
<1> QED BY <1>5, <1>6 DEF vars

LEMMA ReworkApartStep == DutyInv /\ [Next]_vars => ReworkApart'
<1> SUFFICES ASSUME DutyInv, [Next]_vars, NEW i \in DOMAIN reworkEdits'
             PROVE  reworkEdits'[i].actor \notin
                      {Anonymous, conclusions'[reworkEdits'[i].baseRevision].reviewer}
  BY DEF ReworkApart
<1>1. TypeInv /\ RoundsInv BY DEF DutyInv, AttestInv, RoundsInv, FrozenInv
<1>2. CASE i \in DOMAIN reworkEdits /\ reworkEdits'[i] = reworkEdits[i]
  <2>1. reworkEdits[i].baseRevision \in DOMAIN conclusions
    BY <1>2 DEF DutyInv, ProofsInv, ProofsKnown
  <2>2. conclusions'[reworkEdits[i].baseRevision] = conclusions[reworkEdits[i].baseRevision]
    BY <1>1, <2>1, RecordsStay
  <2> QED BY <1>2, <2>2 DEF DutyInv, ReworkApart
<1>3. ASSUME NEW actor \in Actor, NEW edits \in SUBSET CueEdit, NEW r, NEW d,
             ReworkCues(edits, r, d, actor, version)
      PROVE  reworkEdits'[i].actor \notin
                {Anonymous, conclusions'[reworkEdits'[i].baseRevision].reviewer}
  <2>1. CASE i \in DOMAIN reworkEdits
    <3>1. reworkEdits'[i] = reworkEdits[i] BY <1>1, <1>3, <2>1, ReworkRecords
    <3> QED BY <1>2, <2>1, <3>1
  <2>2. CASE i \notin DOMAIN reworkEdits
    <3>1. /\ Len(reworkEdits) \in Nat /\ DOMAIN reworkEdits = 1..Len(reworkEdits)
          /\ DOMAIN reworkEdits' = 1..(Len(reworkEdits) + 1)
      BY <1>1, <1>3, ReworkRecords
    <3>2. i = Len(reworkEdits) + 1 BY <2>2, <3>1
    <3> QED BY <1>1, <1>3, <3>2, ReworkRecords
  <2> QED BY <2>1, <2>2
<1> QED BY <1>1, <1>2, <1>3, OnlyReworkProves

LEMMA ApprovalApartStep == DutyInv /\ [Next]_vars => ApprovalApart' /\ IssuanceApart'
<1> SUFFICES ASSUME DutyInv, [Next]_vars PROVE ApprovalApart' /\ IssuanceApart'
  OBVIOUS
<1>1. TypeInv /\ RoundsInv BY DEF DutyInv, AttestInv, RoundsInv, FrozenInv
<1>2. createdBy' = createdBy BY <1>1, CreatorStays
<1>3. ASSUME UNCHANGED <<status, approval, credential, snapshots, conclusions>>
      PROVE  ApprovalApart' /\ IssuanceApart'
  BY <1>2, <1>3 DEF DutyInv, ApprovalApart, IssuanceApart, Signed
<1>4. ASSUME UNCHANGED credential, status' \notin Signed
      PROVE  ApprovalApart' /\ IssuanceApart'
  BY <1>2, <1>4 DEF DutyInv, ApprovalApart, IssuanceApart, Signed
<1>5. ASSUME NEW actor \in Actor, Approves(actor)
      PROVE  ApprovalApart' /\ IssuanceApart'
  <2>1. /\ status = "pending_approval" /\ actor \notin {createdBy, submittedBy, reviewFinishedBy}
        /\ approval'.by = actor /\ approval'.revision = currentRevision
        /\ UNCHANGED <<snapshots, conclusions, credential>>
    BY <1>5 DEF Approves, Sign, Blocking, SeparateDuty
  <2>2. snapshots[currentRevision].submittedBy = submittedBy
    BY <1>1, <2>1 DEF RoundsInv, FrozenInv, FrozenCandidate, Editable
  <2>3. conclusions[currentRevision].reviewer = reviewFinishedBy
    BY <1>1, <2>1 DEF RoundsInv, LastConclusion
  <2> QED BY <1>2, <2>1, <2>2, <2>3 DEF DutyInv, ApprovalApart, IssuanceApart
<1>6. ASSUME NEW actor \in Actor, IssueCredential(actor, version)
      PROVE  ApprovalApart' /\ IssuanceApart'
  <2>1. /\ status = "approved" /\ actor # createdBy /\ credential'.issuedBy = actor
        /\ UNCHANGED <<approval, snapshots, conclusions>>
    BY <1>6 DEF IssueCredential
  <2> QED BY <1>2, <2>1 DEF DutyInv, ApprovalApart, IssuanceApart, Signed
<1>7. CASE Next
  <2>1. Steps BY <1>1, <1>7, NextSteps DEF TypeInv
  <2>2. ASSUME NEW actor \in Actor, Submit(actor, version)
        PROVE  ApprovalApart' /\ IssuanceApart'
    BY <1>4, <2>2 DEF Submit, Signed
  <2>3. ASSUME NEW actor \in Actor, NEW digest, FinishReview(actor, digest, version)
        PROVE  ApprovalApart' /\ IssuanceApart'
    BY <1>4, <2>3 DEF FinishReview, Signed
  <2> QED BY <2>1, <2>2, <2>3, <1>3, <1>5, <1>6
    DEF Steps, ReviseMetadata, BatchCues, ReworkCues, ApplyCueEdits, BatchFindings,
        BatchRespond
<1> QED BY <1>3, <1>7 DEF vars

LEMMA DutyStep == DutyInv /\ [Next]_vars => DutyInv'
BY FindingsStep, AttestStep, ProofsStep, ReportsApartStep, ReviewsApartStep, ReworkApartStep,
   ApprovalApartStep DEF DutyInv

\* Nobody ever reviews, reworks or signs what was theirs to be checked, in any
\* round of the job, however its people took turns.
THEOREM FourEyes == Spec => []DutySeparation
<1>1. Init => DutyInv
  <2> SUFFICES ASSUME Init PROVE DutyInv
    OBVIOUS
  <2>1. FindingsInv /\ RoundsInv BY FindingsInit, RoundsInit
  <2>2. Reported = {} BY DEF Init, Reported
  <2> QED BY <2>1, <2>2
    DEF Init, DutyInv, AttestInv, CredentialAttestsReviewedCandidate, ProofsInv, ProofsInOrder,
        ProofsKnown, ReportsApart, ReviewsApart, ReworkApart, ApprovalApart, IssuanceApart,
        Signed
<1>2. DutyInv => DutySeparation
  BY DEF DutyInv, DutySeparation, ReportsApart, ReviewsApart, ReworkApart, ApprovalApart,
         IssuanceApart
<1> QED BY <1>1, <1>2, DutyStep, PTL DEF Spec

-----------------------------------------------------------------------------
(* The difference of two candidates. *)

\* The difference of the candidate a severe finding was about and the one that
\* answers it lists the cue of the finding, with the content answered.
THEOREM DiffShowsAnswers == Spec => []AnswersShowInDiff
<1>1. AnswersInv => AnswersShowInDiff
  <2> SUFFICES ASSUME AnswersInv, NEW f \in Reported, Severe(f), f \in Answered,
                      findings[f].responseRevision \in DOMAIN snapshots
               PROVE  LET x == findings[f] IN
                      \E d \in Diff(x.candidateRevision, x.responseRevision) :
                        /\ d.cueID = x.cue
                        /\ f \in d.linkedFindings
                        /\ d.kind # "deleted"
                        /\ ContentHash(d.after) = x.responseCueHash
    BY DEF AnswersShowInDiff
  <2> DEFINE x == findings[f]
             a == snapshots[x.candidateRevision].cues
             b == snapshots[x.responseRevision].cues
             linked == LinkedFindings(x.cue, x.responseRevision)
             d == [cueID |-> x.cue, kind |-> DiffKind(a, b, x.cue),
                   before |-> a[x.cue], after |-> b[x.cue],
                   linkedFindings |-> linked, anomaly |-> linked = {}]
  <2>1. x.candidateRevision < currentRevision
    <3>1. /\ x.candidateRevision < x.responseRevision
          /\ x.candidateRevision \in 1..currentRevision
          /\ DOMAIN snapshots = 1..currentRevision /\ currentRevision \in Nat
      BY DEF AnswersInv, FindingsInv, AnswersInOrder, FindingsOfCandidates, TypeInv, TypeOK,
             Version
    <3> QED BY <3>1
  <2>2. /\ x.cue \in Present(b)
        /\ HashOf(b, x.cue) = x.responseCueHash
        /\ HashOf(a, x.cue) # x.responseCueHash
    BY <2>1 DEF AnswersInv, AnswersAreInCandidate, AnswersHaveCue
  <2>3. a[x.cue] # b[x.cue] BY <2>2 DEF HashOf
  <2>4. x.cue \in Compared(a, b) BY <2>2 DEF Compared
  <2>5. d \in Diff(x.candidateRevision, x.responseRevision)
    BY <2>3, <2>4 DEF Diff
  <2>6. f \in linked BY DEF LinkedFindings
  <2>7. ContentHash(b[x.cue]) = x.responseCueHash
    BY <2>2 DEF HashOf, Present
  <2>8. DiffKind(a, b, x.cue) # "deleted"
    BY <2>2 DEF DiffKind
  <2>9. /\ d.cueID = x.cue /\ f \in d.linkedFindings /\ d.kind # "deleted"
        /\ ContentHash(d.after) = x.responseCueHash
    BY <2>6, <2>7, <2>8
  <2> QED BY <2>5, <2>9
<1> QED BY <1>1, AnswersAlways, PTL

-----------------------------------------------------------------------------
(* The summary of findings. *)

\* The findings behind one row of a summary, and the row.
Group(round, key) == {f \in InRound(round) : SummaryKey(f) = key}
SummaryRow(round, key) ==
    LET G == Group(round, key) IN
    [reviewRound |-> key[1], category |-> key[2], severity |-> key[3],
     total       |-> Cardinality(G),
     new         |-> Cardinality({f \in G : findings[f].previousFindingID = NoFinding}),
     resolved    |-> Cardinality(G \cap Answered),
     unresolved  |-> Cardinality(G \ Answered)]

OfSeverity(round, s) == {f \in InRound(round) : findings[f].severity = s}

LEMMA SummaryRows ==
    ASSUME NEW round \in Nat \ {0}
    PROVE  FindingSummary(round) = {SummaryRow(round, SummaryKey(f)) : f \in InRound(round)}
<1>1. round > 0 OBVIOUS
<1> QED BY <1>1, Zenon DEF FindingSummary, SummaryRow, Group

\* Numbering the findings of each row numbers all findings of a severity.
LEMMA TotalsAddUp ==
    ASSUME TypeInv, NEW round \in Nat \ {0}, NEW s
    PROVE  Cardinality(UNION {{<<r, n>> : n \in 1..r.total} :
                               r \in {q \in FindingSummary(round) : q.severity = s}})
             = Cardinality(OfSeverity(round, s))
<1> DEFINE Rows == {q \in FindingSummary(round) : q.severity = s}
           Numbered == UNION {{<<r, n>> : n \in 1..r.total} : r \in Rows}
           Keys == {SummaryKey(f) : f \in InRound(round)}
           KeyOf(r) == <<r.reviewRound, r.category, r.severity>>
           number == [k \in Keys |-> CHOOSE b \in Bijection(1..Cardinality(Group(round, k)),
                                                           Group(round, k)) : TRUE]
           named == [p \in Numbered |-> number[KeyOf(p[1])][p[2]]]
<1>1. \A k \in Keys : number[k] \in Bijection(1..Cardinality(Group(round, k)), Group(round, k))
  <2> TAKE k \in Keys
  <2>1. Group(round, k) \in SUBSET FindingId BY DEF Group, InRound, Reported
  <2>2. ExistsBijection(1..Cardinality(Group(round, k)), Group(round, k))
    BY <2>1, FindingsFinite, FS_CardinalityType
  <2> QED BY <2>2 DEF ExistsBijection
<1> HIDE DEF number
<1>2. \A k \in Keys :
         LET S == 1..Cardinality(Group(round, k)) IN
         /\ number[k] \in [S -> Group(round, k)]
         /\ \A m, n \in S : number[k][m] = number[k][n] => m = n
         /\ \A f \in Group(round, k) : \E n \in S : number[k][n] = f
  <2> TAKE k \in Keys
  <2> DEFINE b == number[k]
             S == 1..Cardinality(Group(round, k))
             T == Group(round, k)
  <2>1. b \in Bijection(S, T) BY <1>1
  <2> HIDE DEF b, S, T
  <2>2. /\ b \in [S -> T]
        /\ \A m, n \in S : b[m] = b[n] => m = n
        /\ \A f \in T : \E n \in S : b[n] = f
    BY <2>1, Fun_BijectionProperties
  <2> QED BY <2>2 DEF b, S, T
<1>3. ASSUME NEW r \in Rows
      PROVE  \E k \in Keys : KeyOf(r) = k /\ r = SummaryRow(round, k) /\ k[3] = s
                             /\ r.total = Cardinality(Group(round, k))
  <2>1. PICK f \in InRound(round) : r = SummaryRow(round, SummaryKey(f))
    BY SummaryRows
  <2> DEFINE k == SummaryKey(f)
  <2>2. k = <<k[1], k[2], k[3]>> BY DEF SummaryKey
  <2>3. /\ r.reviewRound = k[1] /\ r.category = k[2] /\ r.severity = k[3]
        /\ r.total = Cardinality(Group(round, k))
    BY <2>1 DEF SummaryRow
  <2>4. r.severity = s OBVIOUS
  <2> QED BY <2>1, <2>2, <2>3, <2>4
<1>4. ASSUME NEW f \in OfSeverity(round, s)
      PROVE  /\ SummaryRow(round, SummaryKey(f)) \in Rows
             /\ KeyOf(SummaryRow(round, SummaryKey(f))) = SummaryKey(f)
             /\ SummaryRow(round, SummaryKey(f)).total
                  = Cardinality(Group(round, SummaryKey(f)))
             /\ f \in Group(round, SummaryKey(f)) /\ SummaryKey(f) \in Keys
  BY SummaryRows DEF OfSeverity, SummaryRow, SummaryKey, Group
<1>5. ASSUME NEW p \in Numbered
      PROVE  \E k \in Keys : /\ KeyOf(p[1]) = k /\ p[1] = SummaryRow(round, k) /\ k[3] = s
                             /\ p = <<p[1], p[2]>> /\ p[2] \in 1..Cardinality(Group(round, k))
                             /\ named[p] = number[k][p[2]]
                             /\ named[p] \in Group(round, k)
  <2>1. PICK r \in Rows : p \in {<<r, n>> : n \in 1..r.total} OBVIOUS
  <2>2. p[1] \in Rows /\ p = <<p[1], p[2]>> /\ p[2] \in 1..p[1].total
    BY <2>1
  <2>3. PICK k \in Keys : /\ KeyOf(p[1]) = k /\ p[1] = SummaryRow(round, k) /\ k[3] = s
                          /\ p[1].total = Cardinality(Group(round, k))
    BY <1>3, <2>2
  <2>4. number[k] \in [1..Cardinality(Group(round, k)) -> Group(round, k)]
    BY <1>2
  <2> QED BY <2>2, <2>3, <2>4
<1>6. named \in [Numbered -> OfSeverity(round, s)]
  <2>1. \A p \in Numbered : named[p] \in OfSeverity(round, s)
    <3> TAKE p \in Numbered
    <3>1. PICK k \in Keys : k[3] = s /\ named[p] \in Group(round, k) BY <1>5
    <3> HIDE DEF named
    <3>2. SummaryKey(named[p])[3] = findings[named[p]].severity BY DEF SummaryKey
    <3> QED BY <3>1, <3>2 DEF Group, OfSeverity
  <2> QED BY <2>1
<1>7. ASSUME NEW p \in Numbered, NEW q \in Numbered, named[p] = named[q]
      PROVE  p = q
  <2>1. PICK k \in Keys : /\ p[1] = SummaryRow(round, k)
                          /\ p = <<p[1], p[2]>> /\ p[2] \in 1..Cardinality(Group(round, k))
                          /\ named[p] = number[k][p[2]] /\ named[p] \in Group(round, k)
    BY <1>5
  <2>2. PICK l \in Keys : /\ q[1] = SummaryRow(round, l)
                          /\ q = <<q[1], q[2]>> /\ q[2] \in 1..Cardinality(Group(round, l))
                          /\ named[q] = number[l][q[2]] /\ named[q] \in Group(round, l)
    BY <1>5
  <2>3. k = l BY <1>7, <2>1, <2>2 DEF Group
  <2>4. \A m, n \in 1..Cardinality(Group(round, k)) : number[k][m] = number[k][n] => m = n
    BY <1>2
  <2>5. p[2] = q[2] BY <1>7, <2>1, <2>2, <2>3, <2>4
  <2> QED BY <2>1, <2>2, <2>3, <2>5
<1>8. ASSUME NEW f \in OfSeverity(round, s) PROVE \E p \in Numbered : named[p] = f
  <2> DEFINE k == SummaryKey(f)
             r == SummaryRow(round, k)
  <2>1. PICK n \in 1..Cardinality(Group(round, k)) : number[k][n] = f
    BY <1>4, <1>2
  <2>2. <<r, n>> \in Numbered BY <1>4, <2>1
  <2>3. named[<<r, n>>] = number[k][n] BY <1>4, <2>2
  <2> QED BY <2>1, <2>2, <2>3
<1> HIDE DEF named
<1>9. named \in Injection(Numbered, OfSeverity(round, s))
  BY <1>6, <1>7, Fun_IsInj
<1>10. named \in Surjection(Numbered, OfSeverity(round, s))
  BY <1>6, <1>8, Fun_IsSurj
<1>11. IsFiniteSet(OfSeverity(round, s))
  <2>1. OfSeverity(round, s) \in SUBSET FindingId BY DEF OfSeverity, InRound, Reported
  <2> QED BY <2>1, FindingsFinite
<1> HIDE DEF Numbered
<1>12. Cardinality(Numbered) = Cardinality(OfSeverity(round, s))
  BY <1>9, <1>10, <1>11, FS_Injection
<1> QED BY <1>12 DEF Numbered

\* The statistics a reviewer signed still hold.
StatisticsHold ==
    \A i \in DOMAIN conclusions : \A s \in Severity :
        conclusions[i].findingSummary.bySeverity[s] = Cardinality(OfSeverity(i, s))

SummaryInv == FindingsInv /\ RoundsInv /\ StatisticsHold

\* A round's findings are complete when it is concluded, and answers change
\* neither their round nor their severity.
LEMMA SummaryStep == SummaryInv /\ [Next]_vars => SummaryInv'
<1> SUFFICES ASSUME SummaryInv, [Next]_vars, NEW i \in DOMAIN conclusions', NEW s \in Severity
             PROVE  conclusions'[i].findingSummary.bySeverity[s]
                      = Cardinality(OfSeverity(i, s)')
  BY FindingsStep, RoundsStep DEF SummaryInv, StatisticsHold
<1>1. TypeInv /\ RoundsInv /\ FindingsInv
  BY DEF SummaryInv, FindingsInv
<1>2. ASSUME i \in DOMAIN conclusions, OfSeverity(i, s)' = OfSeverity(i, s)
      PROVE  conclusions'[i].findingSummary.bySeverity[s] = Cardinality(OfSeverity(i, s)')
  BY <1>1, <1>2, RecordsStay DEF SummaryInv, StatisticsHold
<1>3. CASE findings' = findings /\ i \in DOMAIN conclusions
  BY <1>2, <1>3 DEF OfSeverity, InRound, Reported
<1>4. CASE AnswersStep /\ i \in DOMAIN conclusions
  <2>1. Reported' = Reported
    BY <1>4, SentinelAssumption DEF AnswersStep, Reported
  <2>2. \A f \in Reported : SameReport(findings'[f], findings[f])
    BY <1>4 DEF AnswersStep, SameReport, Reported
  <2> QED BY <1>2, <1>4, <2>1, <2>2 DEF OfSeverity, InRound, SameReport
<1>5. CASE ReportsStep /\ i \in DOMAIN conclusions
  <2>1. /\ conclusions \in Seq(Conclusion) /\ currentRevision \in Nat \ {0}
        /\ reviewRound = currentRevision /\ status = "in_review"
    BY <1>1, <1>5 DEF ReportsStep, TypeInv, TypeOK, Counters, Version
  <2>2. Len(conclusions) = reviewRound - 1
    BY <1>1, <2>1 DEF RoundsInv, OneConclusionPerRound
  <2>3. i # reviewRound BY <1>5, <2>1, <2>2
  <2>4. \A f \in Reported : f \in Reported' /\ findings'[f] = findings[f]
    BY <1>5 DEF ReportsStep, Reported
  <2>5. \A f \in Reported' \ Reported : findings'[f].reviewRound = reviewRound
    BY <1>5 DEF ReportsStep, Reported
  <2>6. OfSeverity(i, s)' = OfSeverity(i, s)
    BY <2>3, <2>4, <2>5 DEF OfSeverity, InRound
  <2> QED BY <1>2, <1>5, <2>6
<1>6. ASSUME NEW actor \in Actor, NEW digest, FinishReview(actor, digest, version),
             i \notin DOMAIN conclusions
      PROVE  conclusions'[i].findingSummary.bySeverity[s] = Cardinality(OfSeverity(i, s)')
  <2>1. /\ i = currentRevision
        /\ conclusions'[i].findingSummary = FindingStatistics(currentRevision)
    BY <1>1, <1>6, FinishConcludes
  <2>2. findings' = findings BY <1>6 DEF FinishReview
  <2>3. FindingStatistics(i).bySeverity[s] = Cardinality(OfSeverity(i, s))
    BY DEF FindingStatistics, OfSeverity
  <2> QED BY <2>1, <2>2, <2>3 DEF OfSeverity, InRound, Reported
<1>7. CASE i \in DOMAIN conclusions
  BY <1>1, <1>3, <1>4, <1>5, <1>7, FindingSteps DEF Seen, Submitted, Concludes, Passes
<1>8. CASE i \notin DOMAIN conclusions
  <2>1. conclusions' # conclusions BY <1>8
  <2>2. Next BY <2>1 DEF vars
  <2>3. Steps BY <1>1, <2>2, NextSteps DEF TypeInv
  <2> QED BY <1>6, <1>8, <2>1, <2>3
    DEF Steps, ReviseMetadata, BatchCues, ReworkCues, ApplyCueEdits, Submit,
        BatchFindings, BatchRespond, Approves, Sign, IssueCredential
<1> QED BY <1>7, <1>8

\* An unresolved severe finding of a concluded round shows that the round sent
\* the job back and the rework is not over.
LEMMA UnresolvedMeansRework ==
    ASSUME SummaryInv, NEW i \in DOMAIN conclusions, NEW f \in InRound(i), Severe(f),
           f \notin Answered
    PROVE  conclusions[i].resultStatus = "rework" /\ status = "rework"
<1>1. /\ conclusions \in Seq(Conclusion) /\ currentRevision \in Nat
      /\ reviewRound = currentRevision /\ i \in 1..Len(conclusions)
  BY DEF SummaryInv, FindingsInv, TypeInv, TypeOK, Counters, Version
<1>2. f \in OpenSevere BY DEF InRound, OpenSevere, Answered
<1>3. /\ status \in {"in_review", "rework"}
      /\ status = "in_review" => i = reviewRound
  BY <1>2 DEF SummaryInv, FindingsInv, OpenOnlyNow, InRound
<1>4. ASSUME status = "in_review" PROVE FALSE
  <2>1. reviewRound # 0 BY <1>1, <1>4 DEF SummaryInv, FindingsInv, TypeInv, Counters
  <2>2. Len(conclusions) = reviewRound - 1
    BY <1>1, <1>4, <2>1 DEF SummaryInv, RoundsInv, OneConclusionPerRound
  <2> QED BY <1>1, <1>3, <1>4, <2>2
<1>5. status = "rework" BY <1>3, <1>4
<1>6. Len(conclusions) = reviewRound
  BY <1>1, <1>5 DEF SummaryInv, RoundsInv, OneConclusionPerRound
<1>7. CASE i = reviewRound
  BY <1>1, <1>5, <1>7 DEF SummaryInv, RoundsInv, LastConclusion
<1>8. CASE i < reviewRound
  BY <1>5, <1>8 DEF SummaryInv, RoundsInv, OneConclusionPerRound
<1> QED BY <1>1, <1>5, <1>6, <1>7, <1>8

\* The rows of a summary add up to the statistics signed at the conclusion of the
\* round, for every severity and ever after.
THEOREM SummaryAddsUp == Spec => []SummaryMatchesConclusions
<1>1. Init => SummaryInv
  BY FindingsInit, RoundsInit DEF SummaryInv, StatisticsHold, Init
<1>2. SummaryInv => SummaryMatchesConclusions
  <2> SUFFICES ASSUME SummaryInv, NEW i \in DOMAIN conclusions
      PROVE LET signed == conclusions[i]
                rows == FindingSummary(signed.reviewRound)
                Sum(of, s) == LET R == {r \in rows : r.severity = s}
                              IN  Cardinality(UNION {{<<r, n>> : n \in 1..of[r]} : r \in R})
                total == [r \in rows |-> r.total]
                unresolved == [r \in rows |-> r.unresolved]
            IN  /\ \A s \in Severity : Sum(total, s) = signed.findingSummary.bySeverity[s]
                /\ \A s \in {"blocking", "high"} :
                      Sum(unresolved, s) > 0 =>
                          signed.resultStatus = "rework" /\ status = "rework"
    BY DEF SummaryMatchesConclusions
  <2> DEFINE rows == FindingSummary(i)
             total == [r \in rows |-> r.total]
             unresolved == [r \in rows |-> r.unresolved]
             Counted(of, s) == UNION {{<<r, n>> : n \in 1..of[r]} :
                                      r \in {q \in rows : q.severity = s}}
  <2>1. i \in Nat \ {0} /\ conclusions[i].reviewRound = i /\ TypeInv
    BY DEF SummaryInv, FindingsInv, TypeInv, TypeOK, RoundsInv, OneConclusionPerRound
  <2>2. ASSUME NEW s \in Severity
        PROVE  Cardinality(Counted(total, s)) = conclusions[i].findingSummary.bySeverity[s]
    <3>1. Counted(total, s) = UNION {{<<r, n>> : n \in 1..r.total} :
                                     r \in {q \in rows : q.severity = s}}
      OBVIOUS
    <3>2. Cardinality(Counted(total, s)) = Cardinality(OfSeverity(i, s))
      BY <2>1, <3>1, TotalsAddUp
    <3> QED BY <3>2 DEF SummaryInv, StatisticsHold
  <2>3. ASSUME NEW s \in {"blocking", "high"}, Cardinality(Counted(unresolved, s)) > 0
        PROVE  conclusions[i].resultStatus = "rework" /\ status = "rework"
    <3>1. Counted(unresolved, s) # {}
      <4> HIDE DEF Counted
      <4> QED BY <2>3, FS_EmptySet
    <3>2. PICK r \in rows : r.severity = s /\ 1..r.unresolved # {}
      BY <3>1
    <3>3. PICK g \in InRound(i) : r = SummaryRow(i, SummaryKey(g))
      BY <2>1, SummaryRows
    <3> DEFINE G == Group(i, SummaryKey(g))
    <3>4. r.unresolved = Cardinality(G \ Answered) /\ SummaryKey(g)[3] = s
      BY <3>2, <3>3 DEF SummaryRow
    <3>5. G \ Answered \in SUBSET FindingId BY DEF Group, InRound, Reported
    <3>6. G \ Answered # {}
      <4>1. Cardinality(G \ Answered) # 0 BY <3>2, <3>4
      <4> QED BY <3>5, <4>1, FindingsFinite
    <3>7. PICK f \in G \ Answered : TRUE BY <3>6
    <3>8. f \in InRound(i) /\ Severe(f)
      BY <3>4, <3>7 DEF Group, SummaryKey, Severe
    <3> QED BY <3>7, <3>8, UnresolvedMeansRework
  <2> QED BY <2>1, <2>2, <2>3
<1> QED BY <1>1, <1>2, SummaryStep, PTL DEF Spec

-----------------------------------------------------------------------------
(* The preview of a batch. *)

\* What the preview must find of the operations alone to accept them.
Clean(ops) ==
    /\ ops # <<>> /\ Len(ops) <= MaxCueBatchOperations
    /\ FirstOnCue(ops) = DOMAIN ops
    /\ \A i \in DOMAIN ops : ~ Misplaced(ops[i])

\* An arrangement lists a batch without repetition.
LEMMA Arranged ==
    ASSUME NEW edits \in EditBatch, NEW ops \in Arrangements(edits)
    PROVE  /\ Len(ops) = Cardinality(edits) /\ Cardinality(edits) \in Nat
           /\ DOMAIN ops = 1..Cardinality(edits)
           /\ Operations(ops) = edits
           /\ ops = <<>> <=> edits = {}
           /\ \A i, k \in DOMAIN ops : ops[i] = ops[k] => i = k
<1> DEFINE n == Cardinality(edits)
<1>1. IsFiniteSet(edits) /\ n \in Nat
  BY EditBatchAssumption, FS_CardinalityType
<1>2. /\ ops \in [1..n -> edits]
      /\ \A e \in edits : \E i \in 1..n : ops[i] = e
  BY DEF Arrangements
<1>3. /\ IsFiniteSet(1..n) /\ Cardinality(1..n) = n
  BY <1>1, FS_Interval
<1>4. ops \in Surjection(1..n, edits) BY <1>2, Fun_IsSurj
<1>5. ops \in Injection(1..n, edits)
  BY <1>1, <1>3, <1>4, FS_SurjSameCardinalityImpliesInj
<1>6. \A i, k \in 1..n : ops[i] = ops[k] => i = k
  BY <1>5, Fun_InjectionProperties
<1>7. Operations(ops) = edits BY <1>2 DEF Operations
<1> HIDE DEF n
<1>8. ops \in Seq(edits) /\ Len(ops) = n BY <1>1, <1>2
<1>9. ops = <<>> <=> edits = {}
  <2>1. ops = <<>> <=> n = 0 BY <1>8
  <2>2. n = 0 <=> edits = {} BY <1>1, FS_EmptySet DEF n
  <2> QED BY <2>1, <2>2
<1> QED BY <1>1, <1>2, <1>6, <1>7, <1>8, <1>9 DEF n

\* The preview accepts the operations that BatchOK accepts, and then the same cues
\* follow from them.
LEMMA CleanBatches ==
    ASSUME NEW edits \in EditBatch, NEW ops \in Arrangements(edits)
    PROVE  /\ Clean(ops) <=> BatchOK(cues, edits)
           /\ Clean(ops) => Previewed(ops) = Edited(cues, edits)
<1>1. /\ Len(ops) = Cardinality(edits) /\ Cardinality(edits) \in Nat
      /\ DOMAIN ops = 1..Cardinality(edits)
      /\ edits = {ops[i] : i \in DOMAIN ops}
      /\ ops = <<>> <=> edits = {}
      /\ \A i, k \in DOMAIN ops : ops[i] = ops[k] => i = k
  BY Arranged DEF Operations
<1> DEFINE n == Cardinality(edits)
           Unique == \A e, f \in edits : e.id = f.id => e = f
<1>2. ASSUME Unique PROVE FirstOnCue(ops) = DOMAIN ops
  <2>1. ASSUME NEW i \in DOMAIN ops, NEW k \in 1..(i - 1), ops[k].id = ops[i].id
        PROVE  FALSE
    <3>1. k \in DOMAIN ops /\ k # i BY <1>1
    <3>2. ops[k] = ops[i] BY <1>1, <1>2, <2>1, <3>1
    <3> QED BY <1>1, <3>1, <3>2
  <2> QED BY <2>1 DEF FirstOnCue
<1>3. ASSUME FirstOnCue(ops) = DOMAIN ops PROVE Unique
  <2> SUFFICES ASSUME NEW i \in DOMAIN ops, NEW k \in DOMAIN ops, ops[i].id = ops[k].id
               PROVE  ops[i] = ops[k]
    BY <1>1
  <2>1. CASE i = k BY <2>1
  <2>2. CASE i # k
    <3>1. i \in 1..(k - 1) \/ k \in 1..(i - 1) BY <1>1, <2>2
    <3> QED BY <1>3, <3>1 DEF FirstOnCue
  <2> QED BY <2>1, <2>2
<1>4. (\A i \in DOMAIN ops : ~ Misplaced(ops[i]))
         <=> \A e \in edits : (e.op = "add") <=> (e.id \notin Present(cues))
  BY <1>1 DEF Misplaced
<1>5. Clean(ops) <=> BatchOK(cues, edits)
  BY <1>1, <1>2, <1>3, <1>4 DEF Clean, BatchOK
<1>6. ASSUME Clean(ops) PROVE Previewed(ops) = Edited(cues, edits)
  <2>1. {k \in FirstOnCue(ops) : ~ Misplaced(ops[k])} = DOMAIN ops
    BY <1>6 DEF Clean
  <2>2. {ops[i] : i \in {k \in FirstOnCue(ops) : ~ Misplaced(ops[k])}} = edits
    BY <1>1, <2>1
  <2> QED BY <2>2 DEF Previewed
<1> QED BY <1>5, <1>6

LEMMA NoBatchIssues ==
    ASSUME NEW edits \in EditBatch, NEW ops \in Arrangements(edits)
    PROVE  BatchIssues(ops, version) = {}
             <=> MayEdit /\ Clean(ops) /\ Present(Previewed(ops)) # {}
<1>1. FirstOnCue(ops) \subseteq DOMAIN ops BY DEF FirstOnCue
<1>2. \A code, found : Whole(code, found) = {} <=> ~ found BY DEF Whole
<1>3. {<<"DUPLICATE_CUE_ID", i>> : i \in DOMAIN ops \ FirstOnCue(ops)} = {}
        <=> FirstOnCue(ops) = DOMAIN ops
  BY <1>1
<1>4. {<<IF ops[i].op = "add" THEN "CUE_ALREADY_EXISTS" ELSE "CUE_NOT_FOUND", i>> :
          i \in {k \in FirstOnCue(ops) : Misplaced(ops[k])}} = {}
        <=> \A i \in FirstOnCue(ops) : ~ Misplaced(ops[i])
  OBVIOUS
<1>5. Len(ops) > MaxCueBatchOperations <=> ~ (Len(ops) <= MaxCueBatchOperations)
  BY Arranged DEF MaxCueBatchOperations
<1> QED BY <1>2, <1>3, <1>4, <1>5 DEF BatchIssues, Clean

CoverageCode == {"PROGRAM_START_GAP", "GAP_TOO_LARGE", "PROGRAM_END_GAP"}

\* The codes of the three kinds of issues are apart.
LEMMA OnlyHoles ==
    ASSUME NEW ops
    PROVE  PreviewIssues(ops, version) \subseteq Placed(CoverageIssues(Previewed(ops), meta), ops)
             <=> /\ BatchIssues(ops, version) = {}
                 /\ CueQualityIssues(Previewed(ops), meta.duration) = {}
<1> DEFINE B == BatchIssues(ops, version)
           Q == CueQualityIssues(Previewed(ops), meta.duration)
           C == CoverageIssues(Previewed(ops), meta)
<1>1. \A issue \in B : issue[1] \notin CoverageCode
  BY DEF BatchIssues, Whole, CoverageCode
<1>2. \A issue \in Q : issue[1] \notin CoverageCode
  BY DEF CueQualityIssues, CoverageCode
<1>3. \A issue \in C : issue[1] \in CoverageCode
  BY DEF CoverageIssues, CoverageIssuesAt, CoverageCode
<1>4. \A issue \in Placed(C, ops) : issue[1] \in CoverageCode
  BY <1>3 DEF Placed
<1>5. \A issue \in Placed(Q, ops) : issue[1] \notin CoverageCode
  BY <1>2 DEF Placed
<1>6. Placed(Q, ops) = {} <=> Q = {} BY DEF Placed
<1>7. PreviewIssues(ops, version) = B \cup Placed(Q, ops) \cup Placed(C, ops)
  BY DEF PreviewIssues
<1> QED BY <1>1, <1>4, <1>5, <1>6, <1>7

\* A preview finds nothing but holes exactly when the batch would be accepted, and
\* then announces the digest the job gets, in whatever order the batch is sent.
THEOREM PreviewTellsTheOutcome == Spec => []PreviewAgrees
<1>1. PreviewAgrees
  <2> SUFFICES ASSUME NEW edits \in EditBatch, NEW ops \in Arrangements(edits)
      PROVE LET preview == PreviewCueEdits(ops, version)
                applies == MayEdit /\ EditsApply(cues, edits, meta.duration)
            IN  /\ applies <=>
                     preview.issues \subseteq Placed(CoverageIssues(Previewed(ops), meta), ops)
                /\ applies => preview.contentDigest = ContentDigest(Edited(cues, edits))
    BY Arranged DEF PreviewAgrees, OrderedBatch
  <2>1. /\ PreviewCueEdits(ops, version).issues = PreviewIssues(ops, version)
        /\ PreviewCueEdits(ops, version).contentDigest = ContentDigest(Previewed(ops))
    BY DEF PreviewCueEdits
  <2> QED BY <2>1, CleanBatches, NoBatchIssues, OnlyHoles DEF EditsApply
<1> QED BY <1>1, PTL

\* After a batch that was previewed as importable a draft can be submitted.
THEOREM ImportableDraftsSubmit == Spec => ImportableIsSubmittable
<1>1. ASSUME TypeInv, NEW edits \in EditBatch, NEW ops \in Arrangements(edits), status = "draft",
             BatchCues(edits, version), PreviewCueEdits(ops, version).importable
      PROVE  CanSubmit'
  <2>1. PreviewIssues(ops, version) = {} BY <1>1 DEF PreviewCueEdits
  <2>2. /\ BatchIssues(ops, version) = {}
        /\ Placed(CoverageIssues(Previewed(ops), meta), ops) = {}
    BY <2>1 DEF PreviewIssues
  <2>3. CoverageIssues(Previewed(ops), meta) = {} BY <2>2 DEF Placed
  <2>4. Previewed(ops) = Edited(cues, edits)
    BY <2>2, CleanBatches, NoBatchIssues
  <2>5. /\ cues' = Edited(cues, edits) /\ meta' = meta /\ status' = "draft"
        /\ Present(cues') # {} /\ CueQualityIssues(cues', meta.duration) = {}
    BY <1>1 DEF BatchCues, ApplyCueEdits, EditsApply
  <2> QED BY <2>3, <2>4, <2>5 DEF CanSubmit, MayEdit, Editable
<1>2. TypeInv /\ [Next]_vars =>
        [\A ops \in OrderedBatch :
           /\ status = "draft"
           /\ BatchCues(Operations(ops), version)
           /\ PreviewCueEdits(ops, version).importable
           => CanSubmit']_vars
  BY <1>1, Arranged DEF OrderedBatch
<1> QED BY <1>2, InitType, StepType, PTL DEF Spec, ImportableIsSubmittable

=============================================================================
