------------------------- MODULE ReviewJob_safety -------------------------
(***************************************************************************)
(* Proofs about the findings of a job, the candidates they are about and   *)
(* the lifecycle, on top of the types proved in ReviewJob_proofs.          *)
(***************************************************************************)
EXTENDS ReviewJob_candidates

-----------------------------------------------------------------------------
(* What the findings, and with them the outcome of a review, rest on. *)

\* A finding is about the candidate under review when it was reported.
FindingsOfCandidates ==
    \A f \in Reported :
        /\ findings[f].candidateRevision \in 1..currentRevision
        /\ findings[f].reviewRound = findings[f].candidateRevision

\* A finding is answered for a later candidate, at most the next one.
AnswersInOrder ==
    \A f \in Answered :
        /\ findings[f].candidateRevision < findings[f].responseRevision
        /\ findings[f].responseRevision <= currentRevision + 1
        /\ status # "rework" => findings[f].responseRevision <= currentRevision

\* Severe findings are open only until the review they belong to is concluded,
\* and then while the job is in rework.
OpenOnlyNow ==
    \A f \in OpenSevere :
        /\ status \in {"in_review", "rework"}
        /\ status = "in_review" => findings[f].reviewRound = reviewRound

\* A rework has a severe finding on the candidate it is to replace, and once it
\* is replaced that finding is answered, for good.
ReworkHasCause ==
    /\ status = "rework" =>
         \E f \in Reported : Severe(f) /\ findings[f].candidateRevision = currentRevision
    /\ currentRevision > 1 =>
         \E f \in Answered : Severe(f) /\ findings[f].responseRevision <= currentRevision

FindingsInv ==
    /\ TypeInv
    /\ FindingsOfCandidates /\ AnswersInOrder /\ OpenOnlyNow /\ ReworkHasCause
    /\ SingleRework

-----------------------------------------------------------------------------
(* What the operations do to findings and status. *)

Seen == <<status, currentRevision, reviewRound, findings>>

Submitted ==
    /\ CanSubmit
    /\ status' = "in_review"
    /\ currentRevision' = currentRevision + 1
    /\ reviewRound' = reviewRound + 1
    /\ findings' = findings

\* A step of BatchFindings: what is new is open and about this round.
ReportsStep ==
    /\ status = "in_review"
    /\ UNCHANGED <<status, currentRevision, reviewRound>>
    /\ findings' \in [FindingId -> Finding \cup {NoFinding}]
    /\ \A f \in FindingId :
         \/ findings'[f] = findings[f]
         \/ /\ findings[f] = NoFinding
            /\ findings'[f] \in Finding
            /\ findings'[f].status = "open"
            /\ findings'[f].candidateRevision = currentRevision
            /\ findings'[f].reviewRound = reviewRound
            /\ findings'[f].previousFindingID # NoFinding =>
                 /\ findings'[f].previousFindingID \in Answered
                 /\ Fingerprint(findings[findings'[f].previousFindingID])
                      = Fingerprint(findings'[f])

SameReport(x, y) ==
    /\ x.cue = y.cue /\ x.severity = y.severity /\ x.wording = y.wording
    /\ x.candidateRevision = y.candidateRevision /\ x.reviewRound = y.reviewRound
    /\ x.previousFindingID = y.previousFindingID

\* A step of BatchRespond: what changes is answered for the next revision.
AnswersStep ==
    /\ status = "rework"
    /\ UNCHANGED <<status, currentRevision, reviewRound>>
    /\ findings' \in [FindingId -> Finding \cup {NoFinding}]
    /\ \A f \in FindingId :
         \/ findings'[f] = findings[f]
         \/ /\ findings[f] \in Finding
            /\ findings[f].status = "open"
            /\ findings'[f] \in Finding
            /\ findings'[f].status = "resolved"
            /\ findings'[f].responseRevision = currentRevision + 1
            /\ SameReport(findings'[f], findings[f])

Concludes ==
    /\ status = "in_review"
    /\ status' = IF FindingStatistics(reviewRound).openBlocking > 0
                 THEN "rework" ELSE "pending_approval"
    /\ UNCHANGED <<currentRevision, reviewRound, findings>>

Passes ==
    /\ status \in {"pending_approval", "approved"}
    /\ status' \in Signed
    /\ UNCHANGED <<currentRevision, reviewRound, findings>>

LEMMA ReportEffect ==
    ASSUME TypeInv, NEW actor \in Actor, NEW reports \in Batches(Report),
           NEW links \in [DOMAIN reports -> FindingId \cup {NoFinding}],
           BatchFindings(reports, links, actor, version)
    PROVE  ReportsStep
<1>1. TypeOK BY DEF TypeInv
<1>2. ASSUME NEW f \in FindingId, findings'[f] # findings[f]
      PROVE  /\ findings[f] = NoFinding
             /\ findings'[f] \in Finding
             /\ findings'[f].status = "open"
             /\ findings'[f].candidateRevision = currentRevision
             /\ findings'[f].reviewRound = reviewRound
             /\ findings'[f].previousFindingID # NoFinding =>
                  /\ findings'[f].previousFindingID \in Answered
                  /\ Fingerprint(findings[findings'[f].previousFindingID])
                       = Fingerprint(findings'[f])
  <2>1. /\ findings[f] = NoFinding
        /\ f \in DOMAIN reports
        /\ reports[f] \in Report
        /\ links[f] \in Links(reports[f])
        /\ findings'[f] = NewFinding(reports[f], links[f], actor)
        /\ findings'[f] \in Finding
    BY <1>1, <1>2, NewFindings
  <2>2. /\ findings'[f].previousFindingID = links[f]
        /\ findings'[f].status = "open"
        /\ findings'[f].candidateRevision = currentRevision
        /\ findings'[f].reviewRound = reviewRound
        /\ findings'[f].cue = reports[f].cue
        /\ findings'[f].severity = reports[f].severity
        /\ findings'[f].wording = Normal[reports[f].wording]
    BY <2>1 DEF NewFinding
  <2>3. reports[f].wording \in Wording BY <2>1, ReportAssumption
  <2>4. Fingerprint(findings'[f]) = Fingerprint(reports[f])
    BY <2>2, <2>3, WordingAssumption DEF Fingerprint
  <2>5. links[f] # NoFinding =>
          links[f] \in Answered /\ Fingerprint(findings[links[f]]) = Fingerprint(reports[f])
    BY <2>1 DEF Links, Repeated, Answered
  <2> QED BY <2>1, <2>2, <2>4, <2>5
<1>3. findings' \in [FindingId -> Finding \cup {NoFinding}]
  BY <1>1, NewFindings
<1> QED BY <1>2, <1>3 DEF ReportsStep, BatchFindings, MayReport

LEMMA AnswerEffect ==
    ASSUME TypeInv, NEW actor \in Actor, NEW answers \in Batches(Answer),
           BatchRespond(answers, actor, version)
    PROVE  AnswersStep
<1>1. TypeOK /\ version \in Version BY DEF TypeInv, TypeOK
<1>2. ASSUME NEW f \in FindingId, findings'[f] # findings[f]
      PROVE  /\ findings[f] \in Finding
             /\ findings[f].status = "open"
             /\ findings'[f] \in Finding
             /\ findings'[f].status = "resolved"
             /\ findings'[f].responseRevision = currentRevision + 1
             /\ SameReport(findings'[f], findings[f])
  <2>1. /\ answers[f] \in Answer
        /\ Answerable(f, answers[f])
        /\ findings[f] \in Finding
        /\ findings'[f] = Resolved(findings[f], answers[f])
        /\ findings'[f] \in Finding
    BY <1>1, <1>2, AnsweredFindings
  <2>2. findings[f].status = "open"
    BY <2>1 DEF Answerable, Answered, Finding
  <2>3. answers[f].responseRevision = currentRevision + 1
    BY <2>1 DEF Answerable
  <2> QED BY <1>1, <2>1, <2>2, <2>3, ResolvedFinding DEF SameReport
<1>3. findings' \in [FindingId -> Finding \cup {NoFinding}]
  BY <1>1, AnsweredFindings
<1> QED BY <1>2, <1>3 DEF AnswersStep, BatchRespond

LEMMA FindingSteps ==
    ASSUME TypeInv, [Next]_vars
    PROVE  \/ UNCHANGED Seen
           \/ Submitted \/ ReportsStep \/ AnswersStep \/ Concludes \/ Passes
<1>1. CASE UNCHANGED vars BY <1>1 DEF vars, Seen
<1>2. CASE Next
  <2>1. Steps BY <1>2, NextSteps DEF TypeInv
  <2>2. ASSUME NEW next \in Metadata, ReviseMetadata(next, version)
        PROVE  UNCHANGED Seen
    BY <2>2 DEF ReviseMetadata, Seen
  <2>3. ASSUME NEW edits \in SUBSET CueEdit, ApplyCueEdits(edits, version)
        PROVE  UNCHANGED Seen
    BY <2>3 DEF ApplyCueEdits, Seen
  <2>4. ASSUME NEW actor \in Actor, Submit(actor, version)
        PROVE  Submitted
    BY <2>4 DEF Submit, Submitted, NextRevision, NextRound
  <2>5. ASSUME NEW actor \in Actor, NEW digest, FinishReview(actor, digest, version)
        PROVE  Concludes
    BY <2>5 DEF FinishReview, Concludes
  <2>6. ASSUME NEW actor \in Actor, Approves(actor) \/ IssueCredential(actor, version)
        PROVE  Passes
    BY <2>6 DEF Approves, Sign, IssueCredential, Passes, Signed
  <2> QED BY <2>1, <2>2, <2>3, <2>4, <2>5, <2>6, ReportEffect, AnswerEffect
    DEF Steps, BatchCues, ReworkCues
<1> QED BY <1>1, <1>2

-----------------------------------------------------------------------------
(* The invariant of the findings. *)

LEMMA FindingsInit == Init => FindingsInv
<1> SUFFICES ASSUME Init PROVE FindingsInv
  OBVIOUS
<1>1. TypeInv BY InitType
<1>2. Reported = {} /\ Answered = {} /\ OpenSevere = {}
  BY DEF Init, Reported, Answered, OpenSevere
<1> QED BY <1>1, <1>2
  DEF Init, FindingsInv, FindingsOfCandidates, AnswersInOrder, OpenOnlyNow,
      ReworkHasCause, SingleRework

\* In a rework of the second candidate the preflight always blocks.
LEMMA NoThirdCandidate ==
    ASSUME FindingsInv, Submitted
    PROVE  currentRevision \in {0, 1}
<1>1. currentRevision \in {0, 1, 2}
  BY DEF FindingsInv, SingleRework, TypeInv, TypeOK, Version
<1>2. ASSUME currentRevision = 2 PROVE FALSE
  <2>1. status = "rework"
    BY <1>2 DEF FindingsInv, TypeInv, Counters, Submitted, CanSubmit, MayEdit, Editable
  <2>2. PICK f \in Answered : Severe(f) /\ findings[f].responseRevision <= 2
    BY <1>2 DEF FindingsInv, ReworkHasCause
  <2>3. f \in Reported /\ findings[f] \in Finding
    BY DEF Answered, Reported, FindingsInv, TypeInv, TypeOK
  <2>4. WrongRevision(f)
    BY <1>2, <2>2, <2>3 DEF WrongRevision, Finding
  <2>5. <<"REVISION_MISMATCH", f>> \in ClosureItems
    BY <2>4 DEF ClosureItems
  <2> QED BY <2>1, <2>2, <2>5 DEF Submitted, CanSubmit
<1> QED BY <1>1, <1>2

LEMMA SubmittedKeeps == ASSUME FindingsInv, Submitted, TypeInv' PROVE FindingsInv'
<1>1. currentRevision \in {0, 1} BY NoThirdCandidate
<1>2. /\ currentRevision \in Nat
      /\ currentRevision' = currentRevision + 1
      /\ reviewRound' = currentRevision'
      /\ status' = "in_review"
  BY <1>1 DEF FindingsInv, TypeInv, Counters, Submitted
<1>3. /\ findings' = findings /\ Reported' = Reported /\ Answered' = Answered
      /\ OpenSevere' = OpenSevere /\ \A f : Severe(f)' = Severe(f)
  BY DEF Submitted, Reported, Answered, OpenSevere, Severe
<1>4. \A f \in Reported : findings[f] \in Finding
  BY DEF FindingsInv, TypeInv, TypeOK, Reported
<1>5. FindingsOfCandidates'
  BY <1>2, <1>3 DEF FindingsInv, FindingsOfCandidates
<1>6. AnswersInOrder'
  BY <1>2, <1>3, <1>4 DEF FindingsInv, AnswersInOrder, Answered, Finding
<1>7. OpenSevere = {}
  <2>1. CASE status = "rework" BY <2>1 DEF Submitted, CanSubmit
  <2>2. CASE status = "draft"
    BY <2>2 DEF FindingsInv, OpenOnlyNow
  <2> QED BY <2>1, <2>2 DEF Submitted, CanSubmit, MayEdit, Editable
<1>8. OpenOnlyNow' BY <1>3, <1>7 DEF OpenOnlyNow
<1>9. ASSUME currentRevision' > 1
      PROVE  \E f \in Answered : Severe(f) /\ findings[f].responseRevision <= currentRevision'
  <2>1. currentRevision = 1 BY <1>1, <1>2, <1>9
  <2>2. status = "rework"
    BY <2>1 DEF FindingsInv, TypeInv, Counters, Submitted, CanSubmit, MayEdit, Editable
  <2>3. PICK f \in Reported : Severe(f)
    BY <2>2 DEF FindingsInv, ReworkHasCause
  <2>4. f \in Answered
    BY <1>4, <1>7, <2>3 DEF OpenSevere, Answered
  <2> QED BY <1>2, <2>3, <2>4 DEF FindingsInv, AnswersInOrder
<1>10. ReworkHasCause' BY <1>2, <1>3, <1>9 DEF ReworkHasCause
<1>11. SingleRework' BY <1>1, <1>2 DEF SingleRework
<1> QED BY <1>5, <1>6, <1>8, <1>10, <1>11 DEF FindingsInv

LEMMA ReportsKeep == ASSUME FindingsInv, ReportsStep, TypeInv' PROVE FindingsInv'
<1>1. /\ UNCHANGED <<status, currentRevision, reviewRound>>
      /\ status = "in_review"
      /\ reviewRound = currentRevision
      /\ currentRevision \in Nat \ {0}
  BY DEF ReportsStep, FindingsInv, TypeInv, TypeOK, Counters, Version
<1>2. \A f \in Reported : findings'[f] = findings[f] /\ f \in Reported'
  BY DEF ReportsStep, Reported
<1>3. \A f \in Reported' \ Reported :
         /\ findings'[f].status = "open"
         /\ findings'[f].candidateRevision = currentRevision
         /\ findings'[f].reviewRound = reviewRound
  BY DEF ReportsStep, Reported
<1>4. Answered' = Answered BY <1>2, <1>3 DEF Answered
<1>5. FindingsOfCandidates'
  BY <1>1, <1>2, <1>3 DEF FindingsInv, FindingsOfCandidates
<1>6. AnswersInOrder'
  BY <1>1, <1>2, <1>4 DEF FindingsInv, AnswersInOrder, Answered
<1>7. OpenOnlyNow'
  <2> SUFFICES ASSUME NEW f \in OpenSevere' PROVE findings'[f].reviewRound = reviewRound
    BY <1>1 DEF OpenOnlyNow
  <2>1. CASE f \in Reported
    BY <1>1, <1>2, <2>1 DEF OpenSevere, Severe, FindingsInv, OpenOnlyNow
  <2>2. CASE f \notin Reported BY <1>3, <2>2 DEF OpenSevere
  <2> QED BY <2>1, <2>2
<1>8. ReworkHasCause'
  BY <1>1, <1>2, <1>4 DEF FindingsInv, ReworkHasCause, Answered, Severe
<1>9. SingleRework' BY <1>1 DEF FindingsInv, SingleRework
<1> QED BY <1>5, <1>6, <1>7, <1>8, <1>9 DEF FindingsInv

LEMMA AnswersKeep == ASSUME FindingsInv, AnswersStep, TypeInv' PROVE FindingsInv'
<1>1. /\ UNCHANGED <<status, currentRevision, reviewRound>>
      /\ status = "rework"
      /\ currentRevision \in Nat
  BY DEF AnswersStep, FindingsInv, TypeInv, TypeOK, Version
<1>2. Reported' = Reported
  BY SentinelAssumption DEF AnswersStep, Reported
<1>3. \A f \in Reported : SameReport(findings'[f], findings[f])
  BY DEF AnswersStep, SameReport, Reported
<1>4. \A f \in Reported : Severe(f)' <=> Severe(f)
  BY <1>3 DEF Severe, SameReport
<1>5. \A f \in Answered : f \in Answered' /\ findings'[f] = findings[f]
  BY <1>2 DEF AnswersStep, Answered, Reported
<1>6. \A f \in Answered' \ Answered :
         f \in Reported /\ findings'[f].responseRevision = currentRevision + 1
  BY <1>2 DEF AnswersStep, Answered, Reported
<1>7. OpenSevere' \subseteq OpenSevere
  BY <1>2, <1>4, <1>5 DEF OpenSevere, Answered
<1>8. FindingsOfCandidates'
  BY <1>1, <1>2, <1>3 DEF FindingsInv, FindingsOfCandidates, SameReport
<1>9. AnswersInOrder'
  <2> SUFFICES ASSUME NEW f \in Answered'
               PROVE  /\ findings'[f].candidateRevision < findings'[f].responseRevision
                      /\ findings'[f].responseRevision <= currentRevision + 1
    BY <1>1 DEF AnswersInOrder
  <2>1. CASE f \in Answered
    BY <1>5, <2>1 DEF FindingsInv, AnswersInOrder
  <2>2. CASE f \notin Answered
    BY <1>1, <1>3, <1>6, <2>2 DEF FindingsInv, FindingsOfCandidates, SameReport
  <2> QED BY <2>1, <2>2
<1>10. OpenOnlyNow' BY <1>1, <1>7 DEF OpenOnlyNow
<1>11. ReworkHasCause'
  BY <1>1, <1>2, <1>3, <1>4, <1>5 DEF FindingsInv, ReworkHasCause, SameReport, Answered
<1>12. SingleRework' BY <1>1 DEF FindingsInv, SingleRework
<1> QED BY <1>8, <1>9, <1>10, <1>11, <1>12 DEF FindingsInv

LEMMA ConcludesKeeps == ASSUME FindingsInv, Concludes, TypeInv' PROVE FindingsInv'
<1>1. /\ status = "in_review"
      /\ UNCHANGED <<currentRevision, reviewRound, findings>>
      /\ reviewRound = currentRevision
      /\ reviewRound \in Nat
  BY DEF Concludes, FindingsInv, TypeInv, TypeOK, Counters, Version
<1>2. /\ Reported' = Reported /\ Answered' = Answered
      /\ OpenSevere' = OpenSevere /\ \A f : Severe(f)' = Severe(f)
  BY <1>1 DEF Reported, Answered, OpenSevere, Severe
<1>3. OpenSevere = OpenInRound(reviewRound)
  BY <1>1 DEF FindingsInv, OpenOnlyNow, OpenInRound, InRound, OpenSevere
<1>4. /\ FindingStatistics(reviewRound).openBlocking = Cardinality(OpenSevere)
      /\ OpenSevere \in SUBSET FindingId
  BY <1>3 DEF FindingStatistics, OpenSevere, Reported
<1>5. \/ status' = "rework" /\ OpenSevere # {}
      \/ status' = "pending_approval" /\ OpenSevere = {}
  BY <1>4, FindingsFinite DEF Concludes
<1>6. FindingsOfCandidates' /\ SingleRework'
  BY <1>1, <1>2 DEF FindingsInv, FindingsOfCandidates, SingleRework
<1>7. AnswersInOrder'
  BY <1>1, <1>2 DEF FindingsInv, AnswersInOrder
<1>8. OpenOnlyNow' BY <1>2, <1>5 DEF OpenOnlyNow
<1>9. ReworkHasCause'
  <2>1. \A f \in OpenSevere :
           f \in Reported /\ Severe(f) /\ findings[f].candidateRevision = currentRevision
    BY <1>1 DEF OpenSevere, FindingsInv, OpenOnlyNow, FindingsOfCandidates
  <2> QED BY <1>1, <1>2, <1>5, <2>1 DEF FindingsInv, ReworkHasCause
<1> QED BY <1>6, <1>7, <1>8, <1>9 DEF FindingsInv

LEMMA PassesKeeps == ASSUME FindingsInv, Passes, TypeInv' PROVE FindingsInv'
<1>1. /\ UNCHANGED <<currentRevision, reviewRound, findings>>
      /\ status \in {"pending_approval", "approved"}
      /\ status' \in {"approved", "credentialed"}
  BY DEF Passes, Signed
<1>2. /\ Reported' = Reported /\ Answered' = Answered
      /\ OpenSevere' = OpenSevere /\ \A f : Severe(f)' = Severe(f)
  BY <1>1 DEF Reported, Answered, OpenSevere, Severe
<1>3. OpenSevere = {} BY <1>1 DEF FindingsInv, OpenOnlyNow
<1> QED BY <1>1, <1>2, <1>3
  DEF FindingsInv, FindingsOfCandidates, AnswersInOrder, OpenOnlyNow, ReworkHasCause,
      SingleRework

LEMMA FindingsStep == FindingsInv /\ [Next]_vars => FindingsInv'
<1> SUFFICES ASSUME FindingsInv, [Next]_vars PROVE FindingsInv'
  OBVIOUS
<1>1. TypeInv /\ TypeInv' BY StepType DEF FindingsInv
<1>2. CASE UNCHANGED Seen
  BY <1>1, <1>2
  DEF Seen, FindingsInv, FindingsOfCandidates, AnswersInOrder, OpenOnlyNow,
      ReworkHasCause, SingleRework, Reported, Answered, OpenSevere, Severe
<1> QED BY <1>1, <1>2, FindingSteps, SubmittedKeeps, ReportsKeep, AnswersKeep,
           ConcludesKeeps, PassesKeeps

\* No job gets a third candidate, whoever works on it and however often it is
\* edited: a second review that sends it back leaves it in rework for good.
THEOREM AtMostOneRework == Spec => []SingleRework
<1>1. Spec => []FindingsInv BY FindingsInit, FindingsStep, PTL DEF Spec
<1>2. FindingsInv => SingleRework BY DEF FindingsInv
<1> QED BY <1>1, <1>2, PTL

\* Counting the open findings of one round is enough to pass the job: what is
\* past its review has no open severe finding of any round.
THEOREM PassedIsClean == Spec => []NoOpenBlockingPastReview
<1>1. Spec => []FindingsInv BY FindingsInit, FindingsStep, PTL DEF Spec
<1>2. FindingsInv => NoOpenBlockingPastReview
  BY DEF FindingsInv, OpenOnlyNow, NoOpenBlockingPastReview
<1> QED BY <1>1, <1>2, PTL

-----------------------------------------------------------------------------
(* The history of findings. *)

HistoryInv == FindingsInv /\ HistoryLinks

LEMMA HistoryStep == HistoryInv /\ [Next]_vars => HistoryInv'
<1> SUFFICES ASSUME HistoryInv, [Next]_vars PROVE HistoryInv'
  OBVIOUS
<1>1. TypeInv /\ FindingsInv /\ FindingsInv'
  BY FindingsStep DEF HistoryInv, FindingsInv
<1> SUFFICES HistoryLinks'
  BY <1>1 DEF HistoryInv
<1>2. ASSUME Reported' = Reported,
             \A f \in Reported : SameReport(findings'[f], findings[f]),
             \A f \in Answered : f \in Answered' /\ findings'[f] = findings[f]
      PROVE  HistoryLinks'
  <2> SUFFICES ASSUME NEW f \in Reported, findings[f].previousFindingID # NoFinding
               PROVE  LET p == findings[f].previousFindingID IN
                      /\ p \in Answered'
                      /\ Fingerprint(findings'[p]) = Fingerprint(findings'[f])
                      /\ findings'[p].candidateRevision < findings'[f].candidateRevision
                      /\ findings'[p].responseRevision <= findings'[f].candidateRevision
    BY <1>2 DEF HistoryLinks, SameReport
  <2>1. findings[f].previousFindingID \in Answered
    BY DEF HistoryInv, HistoryLinks
  <2>2. findings'[findings[f].previousFindingID] = findings[findings[f].previousFindingID]
    BY <1>2, <2>1
  <2>3. SameReport(findings'[f], findings[f]) BY <1>2
  <2> QED BY <1>2, <2>1, <2>2, <2>3 DEF HistoryInv, HistoryLinks, SameReport, Fingerprint
<1>3. CASE findings' = findings
  <2>1. Reported' = Reported /\ Answered' = Answered
    BY <1>3 DEF Reported, Answered
  <2> QED BY <1>2, <1>3, <2>1 DEF SameReport
<1>4. CASE AnswersStep
  <2>1. Reported' = Reported
    BY <1>4, SentinelAssumption DEF AnswersStep, Reported
  <2>2. \A f \in Reported : SameReport(findings'[f], findings[f])
    BY <1>4 DEF AnswersStep, SameReport, Reported
  <2>3. \A f \in Answered : f \in Answered' /\ findings'[f] = findings[f]
    BY <1>4, <2>1 DEF AnswersStep, Answered, Reported
  <2> QED BY <1>2, <2>1, <2>2, <2>3
<1>5. CASE ReportsStep
  <2>1. \A f \in Reported : findings'[f] = findings[f] /\ f \in Reported'
    BY <1>5 DEF ReportsStep, Reported
  <2>2. \A p \in Answered : p \in Reported /\ findings'[p] = findings[p] /\ p \in Answered'
    BY <2>1 DEF Answered
  <2>3. ASSUME NEW f \in Reported' \ Reported, findings'[f].previousFindingID # NoFinding
        PROVE  LET p == findings'[f].previousFindingID IN
               /\ p \in Answered
               /\ Fingerprint(findings[p]) = Fingerprint(findings'[f])
               /\ findings'[f].candidateRevision = currentRevision
    BY <1>5, <2>3 DEF ReportsStep, Reported
  <2>4. \A p \in Answered : /\ findings[p].candidateRevision < currentRevision
                           /\ findings[p].responseRevision <= currentRevision
    <3> SUFFICES ASSUME NEW p \in Answered
                 PROVE  /\ findings[p].candidateRevision < currentRevision
                        /\ findings[p].responseRevision <= currentRevision
      OBVIOUS
    <3>1. findings[p].candidateRevision < findings[p].responseRevision
      BY <1>1 DEF FindingsInv, AnswersInOrder
    <3>2. findings[p].responseRevision <= currentRevision
      BY <1>1, <1>5 DEF FindingsInv, AnswersInOrder, ReportsStep
    <3>3. findings[p] \in Finding /\ currentRevision \in Nat
      BY <1>1 DEF Answered, Reported, TypeInv, TypeOK, Version
    <3> QED BY <3>1, <3>2, <3>3 DEF Finding, Version
  <2> SUFFICES ASSUME NEW f \in Reported', findings'[f].previousFindingID # NoFinding
               PROVE  LET p == findings'[f].previousFindingID IN
                      /\ p \in Answered'
                      /\ Fingerprint(findings'[p]) = Fingerprint(findings'[f])
                      /\ findings'[p].candidateRevision < findings'[f].candidateRevision
                      /\ findings'[p].responseRevision <= findings'[f].candidateRevision
    BY DEF HistoryLinks
  <2>5. CASE f \in Reported
    <3>1. findings'[f] = findings[f] BY <2>1, <2>5
    <3>2. findings[f].previousFindingID \in Answered
      BY <2>5, <3>1 DEF HistoryInv, HistoryLinks
    <3>3. findings'[findings[f].previousFindingID] = findings[findings[f].previousFindingID]
      BY <2>2, <3>2
    <3> QED BY <2>2, <2>5, <3>1, <3>2, <3>3 DEF HistoryInv, HistoryLinks, Fingerprint
  <2>6. CASE f \notin Reported
    BY <2>2, <2>3, <2>4, <2>6 DEF Fingerprint
  <2> QED BY <2>5, <2>6
<1>6. findings' = findings \/ AnswersStep \/ ReportsStep
  BY <1>1, FindingSteps DEF Seen, Submitted, Concludes, Passes
<1> QED BY <1>3, <1>4, <1>5, <1>6

\* A finding linked to an earlier one repeats it, on a candidate frozen with
\* the answer to the earlier one.
THEOREM HistoryIsLinked == Spec => []HistoryLinks
<1>1. Init => HistoryInv
  BY FindingsInit DEF HistoryInv, HistoryLinks, Init, Reported
<1>2. Spec => []HistoryInv BY <1>1, HistoryStep, PTL DEF Spec
<1>3. HistoryInv => HistoryLinks BY DEF HistoryInv
<1> QED BY <1>2, <1>3, PTL

-----------------------------------------------------------------------------
(* The answers a candidate was frozen with. *)

\* The cue a severe finding was about is in the candidate that answers it.
AnswersHaveCue ==
    \A f \in Reported :
        Severe(f) /\ findings[f].candidateRevision < currentRevision =>
            findings[f].cue \in Present(snapshots[findings[f].responseRevision].cues)

AnswersInv == FindingsInv /\ AnswersAreInCandidate /\ AnswersHaveCue

\* What the preflight has checked of the answer to a severe finding.
LEMMA PreflightPassed ==
    ASSUME TypeInv, CanSubmit, status = "rework", NEW f \in Reported, Severe(f),
           findings[f].candidateRevision \in DOMAIN snapshots
    PROVE  LET x == findings[f] IN
           /\ f \in Answered
           /\ x.responseRevision = currentRevision + 1
           /\ x.cue \in Present(cues)
           /\ HashOf(cues, x.cue) = x.responseCueHash
           /\ HashOf(snapshots[x.candidateRevision].cues, x.cue) # x.responseCueHash
<1> DEFINE x == findings[f]
<1>1. /\ OpenSevere = {}
      /\ \A item \in ClosureItems : ~ Severe(item[2])
  BY DEF CanSubmit
<1>2. f \in Answered BY <1>1 DEF OpenSevere, Answered
<1>3. ASSUME WrongRevision(f) PROVE FALSE
  <2>1. <<"REVISION_MISMATCH", f>> \in ClosureItems BY <1>2, <1>3 DEF ClosureItems
  <2> QED BY <1>1, <2>1
<1>4. ASSUME x.cue \notin Present(cues) PROVE FALSE
  <2>1. <<"CUE_MISSING", f>> \in ClosureItems BY <1>2, <1>4 DEF ClosureItems
  <2> QED BY <1>1, <2>1
<1>5. ASSUME OtherContent(f) PROVE FALSE
  <2>1. <<"RESPONSE_HASH_MISMATCH", f>> \in ClosureItems BY <1>2, <1>5 DEF ClosureItems
  <2> QED BY <1>1, <2>1
<1>6. ASSUME Unchanged(f) PROVE FALSE
  <2>1. <<"RESPONSE_UNCHANGED", f>> \in ClosureItems BY <1>2, <1>6 DEF ClosureItems
  <2> QED BY <1>1, <2>1
<1>7. HashOf(cues, x.cue) = x.responseCueHash BY <1>4, <1>5 DEF OtherContent
<1>8. HashOf(snapshots[x.candidateRevision].cues, x.cue) # HashOf(cues, x.cue)
  <2> DEFINE old == snapshots[x.candidateRevision].cues
  <2>1. CASE x.cue \in Present(old) BY <1>6, <2>1 DEF Unchanged
  <2>2. CASE x.cue \notin Present(old)
    <3>1. x.cue \in CueId BY DEF Reported, TypeInv, TypeOK, Finding
    <3>2. HashOf(old, x.cue) = <<>> BY <2>2, <3>1 DEF HashOf, Present
    <3>3. HashOf(cues, x.cue) = ContentHash(cues[x.cue]) BY <1>4 DEF HashOf, Present
    <3> QED BY <3>2, <3>3 DEF ContentHash
  <2> QED BY <2>1, <2>2
<1> QED BY <1>2, <1>3, <1>4, <1>7, <1>8 DEF WrongRevision

\* A submission freezes what the preflight has checked; nothing else reaches the
\* finding or the candidate.
LEMMA AnswersStay == AnswersInv /\ [Next]_vars => AnswersInv'
<1> SUFFICES ASSUME AnswersInv, [Next]_vars, NEW f \in Reported', Severe(f)',
                    findings'[f].candidateRevision < currentRevision'
             PROVE  LET x == findings'[f] IN
                    /\ f \in Answered'
                    /\ x.responseRevision \in DOMAIN snapshots'
                    /\ x.cue \in Present(snapshots'[x.responseRevision].cues)
                    /\ HashOf(snapshots'[x.responseRevision].cues, x.cue) = x.responseCueHash
                    /\ HashOf(snapshots'[x.candidateRevision].cues, x.cue) # x.responseCueHash
  BY FindingsStep DEF AnswersInv, AnswersAreInCandidate, AnswersHaveCue
<1>1. /\ TypeInv /\ FindingsInv /\ f \in FindingId
      /\ currentRevision \in Nat /\ DOMAIN snapshots = 1..currentRevision
  BY DEF AnswersInv, FindingsInv, Reported, TypeInv, TypeOK, Version
<1>2. ASSUME UNCHANGED <<currentRevision, snapshots>>, f \in Reported,
             findings'[f] = findings[f]
      PROVE  LET x == findings'[f] IN
             /\ f \in Answered'
             /\ x.responseRevision \in DOMAIN snapshots'
             /\ x.cue \in Present(snapshots'[x.responseRevision].cues)
             /\ HashOf(snapshots'[x.responseRevision].cues, x.cue) = x.responseCueHash
             /\ HashOf(snapshots'[x.candidateRevision].cues, x.cue) # x.responseCueHash
  <2>1. Severe(f) BY <1>2 DEF Severe
  <2> QED BY <1>2, <2>1
    DEF AnswersInv, AnswersAreInCandidate, AnswersHaveCue, Answered, Reported
<1>3. CASE UNCHANGED <<currentRevision, snapshots>>
  <2>1. CASE findings' = findings BY <1>2, <1>3, <2>1 DEF Reported
  <2>2. CASE ReportsStep
    <3>1. findings'[f] = findings[f]
      BY <1>1, <1>3, <2>2 DEF ReportsStep
    <3> QED BY <1>2, <1>3, <3>1 DEF Reported
  <2>3. CASE AnswersStep
    <3>1. /\ f \in Reported /\ SameReport(findings'[f], findings[f])
      BY <1>1, <2>3, SentinelAssumption DEF AnswersStep, Reported, SameReport
    <3>2. f \in Answered
      BY <1>3, <3>1 DEF AnswersInv, AnswersAreInCandidate, SameReport, Severe
    <3>3. findings'[f] = findings[f]
      BY <1>1, <2>3, <3>2 DEF AnswersStep, Answered
    <3> QED BY <1>2, <1>3, <3>1, <3>3
  <2>4. currentRevision' # currentRevision + 1 BY <1>1, <1>3
  <2> QED BY <1>1, <2>1, <2>2, <2>3, <2>4, FindingSteps DEF Seen, Submitted, Concludes, Passes
<1>4. ASSUME NEW actor \in Actor, Submit(actor, version)
      PROVE  LET x == findings'[f] IN
             /\ f \in Answered'
             /\ x.responseRevision \in DOMAIN snapshots'
             /\ x.cue \in Present(snapshots'[x.responseRevision].cues)
             /\ HashOf(snapshots'[x.responseRevision].cues, x.cue) = x.responseCueHash
             /\ HashOf(snapshots'[x.candidateRevision].cues, x.cue) # x.responseCueHash
  <2>1. /\ CanSubmit /\ status \in {"draft", "rework"} /\ findings' = findings
        /\ Reported' = Reported /\ Answered' = Answered /\ Severe(f)
    BY <1>4 DEF Submit, CanSubmit, MayEdit, Editable, Reported, Answered, Severe
  <2>2. findings[f].candidateRevision \in DOMAIN snapshots
    BY <1>1, <2>1 DEF FindingsInv, FindingsOfCandidates
  <2>3. status = "rework"
    BY <1>1, <2>1, <2>2 DEF TypeInv, Counters
  <2>4. /\ snapshots' = [r \in 1..(currentRevision + 1) |->
             IF r = currentRevision + 1 THEN Candidate(actor) ELSE snapshots[r]]
    BY <1>1, <1>4, SubmitFreezes
  <2>5. /\ currentRevision + 1 \in DOMAIN snapshots'
        /\ snapshots'[currentRevision + 1].cues = cues
        /\ snapshots'[findings[f].candidateRevision] = snapshots[findings[f].candidateRevision]
    BY <1>1, <2>2, <2>4 DEF Candidate
  <2> QED BY <1>1, <2>1, <2>2, <2>3, <2>5, PreflightPassed
<1> QED BY <1>1, <1>3, <1>4, OnlySubmitFreezes

LEMMA AnswersAlways == Spec => []AnswersInv
<1>1. Init => AnswersInv
  BY FindingsInit DEF AnswersInv, AnswersAreInCandidate, AnswersHaveCue, Init, Reported
<1> QED BY <1>1, AnswersStay, PTL DEF Spec

\* Whatever is edited after an answer, the candidate it was promised for holds the
\* cue with the content answered, which is not the content that was found fault
\* with.
THEOREM AnswersAreFrozen == Spec => []AnswersAreInCandidate
<1>1. AnswersInv => AnswersAreInCandidate BY DEF AnswersInv
<1> QED BY <1>1, AnswersAlways, PTL

=============================================================================
