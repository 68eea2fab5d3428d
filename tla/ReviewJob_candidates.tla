------------------------- MODULE ReviewJob_candidates -------------------------
(***************************************************************************)
(* Proofs about the cues of a job and the candidates frozen of them: the   *)
(* cues never overlap, what is frozen does not change, it is what is       *)
(* reviewed and delivered, and the job so implements the abstract          *)
(* lifecycle.                                                              *)
(***************************************************************************)
EXTENDS ReviewJob_proofs, SequenceTheorems

-----------------------------------------------------------------------------
(* The cues on the programme. *)

\* Induction over numbers, as the existence of a least one.
LEMMA LeastNatural ==
    ASSUME NEW S \in SUBSET Nat, S # {}
    PROVE  \E n \in S : \A m \in S : n <= m
<1>1. PICK n \in S : \A m \in S : <<m, n>> \notin OpToRel(<, Nat)
  BY WFMin, NatLessThanWellFounded
<1>2. \A m \in S : ~ (m < n) BY <1>1 DEF OpToRel
<1> QED BY <1>2

\* The cues between two cues.
Between(track, i, k) ==
    {q \in Present(track) : Before(track, i, q) /\ Before(track, q, k)}

\* The check compares neighbours; that no two cues overlap follows because the
\* cues between two others are fewer than all, so that a pair with the fewest
\* cues between it can only be one of neighbours.
LEMMA NeighboursDisjoint ==
    ASSUME NEW track \in Track, NEW duration \in Int,
           CueQualityIssues(track, duration) = {},
           NEW a \in Present(track), NEW b \in Present(track), Before(track, a, b)
    PROVE  track[a].end <= track[b].start
<1> DEFINE P == Present(track)
           Bad == {p \in P \X P : Before(track, p[1], p[2]) 
                                    /\ ~ (track[p[1]].end <= track[p[2]].start)}
           Gaps == {Between(track, p[1], p[2]) : p \in Bad}
<1>1. \A i \in P : /\ i \in Nat
                   /\ track[i].start \in Int /\ track[i].end \in Int
                   /\ track[i].start < track[i].end
  <2> TAKE i \in P
  <2>1. track[i] \in Cue /\ i \in Nat BY CueIdAssumption DEF Present, Track
  <2>2. ~ BadRange(track[i], duration) BY DEF CueQualityIssues
  <2> QED BY <2>1, <2>2, CueAssumption DEF BadRange
<1>2. IsFiniteSet(P) BY CueIdAssumption, FS_Subset DEF Present
<1>3. IsWellFoundedOn(StrictSubsetOrdering(P), SUBSET P)
  BY <1>2, FS_StrictSubsetOrderingWellFounded, FS_FiniteSubsetsOfFinite
<1>4. Gaps \subseteq SUBSET P BY DEF Between
<1>5. ASSUME ~ (track[a].end <= track[b].start) PROVE <<a, b>> \in Bad
  BY <1>5
<1> SUFFICES ASSUME Bad # {} PROVE FALSE
  BY <1>5
<1>6. PICK G \in Gaps : \A H \in Gaps : <<H, G>> \notin StrictSubsetOrdering(P)
  <2>1. Gaps # {} OBVIOUS
  <2> HIDE DEF Gaps
  <2> QED BY <1>3, <1>4, <2>1, WFMin
<1>7. PICK p \in Bad : G = Between(track, p[1], p[2])
  OBVIOUS
<1> DEFINE i == p[1] 
           k == p[2]
<1>8. i \in P /\ k \in P /\ Before(track, i, k) /\ ~ (track[i].end <= track[k].start)
  BY <1>7
<1> HIDE DEF i, k
<1>9. CASE G = {}
  <2>1. Precedes(track, i, k) BY <1>7, <1>8, <1>9 DEF Precedes, Between, i, k
  <2>2. ASSUME track[k].start < track[i].end PROVE FALSE
    <3>1. k \in {x \in P : \E y \in P : /\ Precedes(track, y, x)
                                        /\ track[x].start < track[y].end}
      BY <1>8, <2>1, <2>2
    <3>2. <<"OVERLAP", k>> \in CueQualityIssues(track, duration)
      BY <3>1 DEF CueQualityIssues
    <3> QED BY <3>2
  <2> QED BY <1>1, <1>8, <2>2
<1>10. CASE G # {}
  <2>1. PICK q \in G : TRUE BY <1>10
  <2>2. q \in P /\ Before(track, i, q) /\ Before(track, q, k) BY <1>7, <2>1 DEF Between, i, k
  <2>3. \A x, y, z \in P : Before(track, x, y) /\ Before(track, y, z) => Before(track, x, z)
    BY <1>1 DEF Before
  <2>4. ~ Before(track, q, q) BY <1>1, <2>2 DEF Before
  <2>5. Between(track, i, q) \subseteq G /\ Between(track, q, k) \subseteq G
    BY <1>7, <1>8, <2>2, <2>3 DEF Between, i, k
  <2>6. q \notin Between(track, i, q) /\ q \notin Between(track, q, k)
    BY <2>4 DEF Between
  <2>7. /\ <<Between(track, i, q), G>> \in StrictSubsetOrdering(P)
        /\ <<Between(track, q, k), G>> \in StrictSubsetOrdering(P)
    BY <1>4, <2>1, <2>5, <2>6 DEF StrictSubsetOrdering
  <2>8. <<i, q>> \notin Bad /\ <<q, k>> \notin Bad BY <1>6, <2>7
  <2>9. track[i].end <= track[q].start /\ track[q].end <= track[k].start
    BY <1>8, <2>2, <2>8
  <2> QED BY <1>1, <1>8, <2>2, <2>9
<1> QED BY <1>9, <1>10

\* ValidateCues compares neighbours in an order by start; the first cue that
\* started too early would do so against its neighbour.
LEMMA ValidatedDisjoint ==
    ASSUME NEW track \in Track, NEW duration \in Int, NEW o \in StartOrders(track),
           ValidateCues(track, duration, o),
           NEW a \in Present(track), NEW b \in Present(track), a # b
    PROVE  track[a].end <= track[b].start \/ track[b].end <= track[a].start
<1> DEFINE P == Present(track)
           n == Cardinality(P)
           Late == {y \in 2..n : \E x \in 1..(y - 1) :
                                   ~ (track[o[x]].end <= track[o[y]].start)}
<1>1. n \in Nat 
  BY CueIdAssumption, FS_Subset, FS_CardinalityType DEF Present
<1>2. \A x \in 1..n : /\ o[x] \in P
                      /\ track[o[x]].start \in Int /\ track[o[x]].end \in Int
                      /\ track[o[x]].start < track[o[x]].end
  <2> TAKE x \in 1..n
  <2>1. o[x] \in P BY DEF StartOrders
  <2>2. track[o[x]] \in Cue BY <2>1 DEF Present, Track
  <2>3. ~ BadRange(track[o[x]], duration) BY <2>1 DEF ValidateCues
  <2> QED BY <2>1, <2>2, <2>3, CueAssumption DEF BadRange
<1>3. ASSUME Late # {} PROVE FALSE
  <2>1. PICK y \in Late : \A z \in Late : y <= z
    <3>1. Late \in SUBSET Nat BY <1>1
    <3> HIDE DEF Late
    <3> QED BY <1>3, <3>1, LeastNatural
  <2>2. PICK x \in 1..(y - 1) : ~ (track[o[x]].end <= track[o[y]].start) OBVIOUS
  <2>3. y \in 2..n /\ y - 1 \in 1..(n - 1) BY <1>1
  <2> HIDE DEF n
  <2>4. track[o[y]].start >= track[o[y - 1]].end
    <3>1. track[o[(y - 1) + 1]].start >= track[o[y - 1]].end BY <2>3 DEF ValidateCues, n
    <3> QED BY <1>1, <2>3, <3>1
  <2>5. x # y - 1 BY <1>1, <1>2, <2>2, <2>3, <2>4
  <2>6. y - 1 \in 2..n /\ x \in 1..((y - 1) - 1) BY <1>1, <2>3, <2>5
  <2>7. y - 1 \notin Late BY <2>1, <2>3
  <2>8. track[o[x]].end <= track[o[y - 1]].start BY <2>6, <2>7
  <2>9. x \in 1..n /\ y \in 1..n /\ y - 1 \in 1..n BY <1>1, <2>3, <2>6
  <2> QED BY <1>2, <2>2, <2>4, <2>8, <2>9
<1>4. PICK x \in 1..n, y \in 1..n : o[x] = a /\ o[y] = b BY DEF StartOrders
<1>5. \/ x < y /\ y \in 2..n /\ x \in 1..(y - 1)
      \/ y < x /\ x \in 2..n /\ y \in 1..(x - 1)
  BY <1>1, <1>4
<1> QED BY <1>3, <1>4, <1>5

\* CuesDisjoint, of any track and duration.
Disjoint(track, duration) ==
    \A i, k \in Present(track) :
        /\ 0 <= track[i].start /\ track[i].start < track[i].end
        /\ track[i].end <= duration
        /\ i # k => track[i].end <= track[k].start \/ track[k].end <= track[i].start

LEMMA InRange ==
    ASSUME NEW track \in Track, NEW duration \in Int, duration > 0,
           NEW i \in Present(track), ~ BadRange(track[i], duration)
    PROVE  /\ 0 <= track[i].start /\ track[i].start < track[i].end
           /\ track[i].end <= duration
<1>1. track[i] \in Cue BY DEF Present, Track
<1> QED BY <1>1, CueAssumption DEF BadRange

LEMMA FreeOfIssues ==
    ASSUME NEW track \in Track, NEW duration \in Int, duration > 0,
           CueQualityIssues(track, duration) = {}
    PROVE  Disjoint(track, duration)
<1>1. \A i \in Present(track) : ~ BadRange(track[i], duration)
  BY DEF CueQualityIssues
<1>2. ASSUME NEW i \in Present(track), NEW k \in Present(track), i # k
      PROVE  Before(track, i, k) \/ Before(track, k, i)
  <2>1. track[i] \in Cue /\ track[k] \in Cue /\ i \in Nat /\ k \in Nat
    BY CueIdAssumption DEF Present, Track
  <2> QED BY <1>2, <2>1, CueAssumption DEF Before
<1> QED BY <1>1, <1>2, InRange, NeighboursDisjoint DEF Disjoint

DisjointInv == TypeInv /\ ValidMetadata(meta) /\ CuesDisjoint

\* Only two operations can disturb this: one revises the metadata under the cues,
\* the other changes the cues under the metadata.
LEMMA DisjointStep == DisjointInv /\ [Next]_vars => DisjointInv'
<1> SUFFICES ASSUME DisjointInv, [Next]_vars PROVE DisjointInv'
  OBVIOUS
<1>1. /\ TypeInv /\ TypeInv'
      /\ cues \in Track /\ cues' \in Track
      /\ meta.duration \in Int /\ meta'.duration \in Int
  BY StepType, MetadataAssumption DEF DisjointInv, TypeInv, TypeOK
<1>2. CuesDisjoint <=> Disjoint(cues, meta.duration)
  BY DEF CuesDisjoint, Disjoint
<1>3. CuesDisjoint' <=> Disjoint(cues', meta'.duration)
  BY DEF CuesDisjoint, Disjoint
<1>4. CASE UNCHANGED <<cues, meta>>
  BY <1>1, <1>2, <1>3, <1>4 DEF DisjointInv, ValidMetadata
<1>5. ASSUME NEW next \in Metadata, ReviseMetadata(next, version)
      PROVE  DisjointInv'
  <2>1. cues' = cues /\ meta' = next /\ ValidMetadata(next) /\ next.duration \in Int
    BY <1>5, MetadataAssumption DEF ReviseMetadata
  <2>2. CASE Present(cues) = {}
    BY <1>1, <1>3, <2>1, <2>2 DEF DisjointInv, ValidMetadata, Disjoint
  <2>3. CASE Present(cues) # {}
    <3>1. PICK o \in StartOrders(cues) : ValidateCues(cues, next.duration, o)
      BY <1>5, <2>3 DEF ReviseMetadata
    <3>2. \A i \in Present(cues) : ~ BadRange(cues[i], next.duration)
      BY <3>1 DEF ValidateCues
    <3>3. next.duration > 0 BY <2>1 DEF ValidMetadata
    <3>4. Disjoint(cues, next.duration)
      BY <1>1, <2>1, <3>1, <3>2, <3>3, InRange, ValidatedDisjoint DEF Disjoint
    <3> QED BY <1>1, <1>3, <2>1, <3>4 DEF DisjointInv, ValidMetadata
  <2> QED BY <2>2, <2>3
<1>6. ASSUME NEW edits \in SUBSET CueEdit, ApplyCueEdits(edits, version)
      PROVE  DisjointInv'
  <2>1. /\ meta' = meta
        /\ CueQualityIssues(cues', meta.duration) = {}
    BY <1>6 DEF ApplyCueEdits, EditsApply
  <2>2. meta.duration > 0 BY DEF DisjointInv, ValidMetadata
  <2> QED BY <1>1, <1>3, <2>1, <2>2, FreeOfIssues DEF DisjointInv, ValidMetadata
<1>7. CASE Next
  <2>1. Steps BY <1>1, <1>7, NextSteps DEF TypeInv
  <2> QED BY <2>1, <1>4, <1>5, <1>6
    DEF Steps, BatchCues, ReworkCues, Submit, BatchFindings, FinishReview,
        BatchRespond, Approves, Sign, IssueCredential
<1> QED BY <1>4, <1>7 DEF vars

\* In every state no two cues of the job overlap and all lie in the programme,
\* although both checks compare neighbours only and order equal starts apart.
THEOREM NoTwoCuesOverlap == Spec => []CuesDisjoint
<1>1. Init => DisjointInv
  BY InitType DEF DisjointInv, CuesDisjoint, Init, EmptyTrack, Present
<1>2. DisjointInv => CuesDisjoint BY DEF DisjointInv
<1> QED BY <1>1, <1>2, DisjointStep, PTL DEF Spec

-----------------------------------------------------------------------------
(* What the operations do to the candidates. *)

\* The snapshot a submission freezes, and the effect on the others.
Candidate(actor) ==
    [reviewRound |-> reviewRound + 1, submittedBy |-> actor,
     contentDigest |-> ContentDigest(cues), cues |-> cues]

LEMMA SubmitFreezes ==
    ASSUME TypeInv, NEW actor \in Actor, Submit(actor, version)
    PROVE  /\ currentRevision \in Nat
           /\ currentRevision' = currentRevision + 1
           /\ DOMAIN snapshots = 1..currentRevision
           /\ snapshots' = [r \in 1..(currentRevision + 1) |->
                IF r = currentRevision + 1 THEN Candidate(actor) ELSE snapshots[r]]
<1>1. /\ currentRevision \in Nat
      /\ currentRevision' = currentRevision + 1
      /\ reviewRound' = reviewRound + 1
      /\ DOMAIN snapshots = 1..currentRevision
  BY DEF TypeInv, TypeOK, Version, Submit, NextRevision, NextRound
<1>2. (1..currentRevision) \cup {currentRevision + 1} = 1..(currentRevision + 1)
  BY <1>1
<1> QED BY <1>1, <1>2 DEF Submit, Candidate

\* Besides submissions, no step touches a snapshot or counts a revision.
LEMMA OnlySubmitFreezes ==
    ASSUME TypeInv, [Next]_vars
    PROVE  \/ UNCHANGED <<currentRevision, snapshots>>
           \/ \E actor \in Actor : Submit(actor, version)
<1>1. CASE UNCHANGED vars BY <1>1 DEF vars
<1>2. CASE Next
  <2>1. Steps BY <1>2, NextSteps DEF TypeInv
  <2>2. ASSUME NEW next \in Metadata, ReviseMetadata(next, version)
        PROVE  UNCHANGED <<currentRevision, snapshots>>
    BY <2>2 DEF ReviseMetadata
  <2>3. ASSUME NEW edits \in SUBSET CueEdit, ApplyCueEdits(edits, version)
        PROVE  UNCHANGED <<currentRevision, snapshots>>
    BY <2>3 DEF ApplyCueEdits
  <2>4. ASSUME NEW reports, NEW links, NEW actor, BatchFindings(reports, links, actor, version)
        PROVE  UNCHANGED <<currentRevision, snapshots>>
    BY <2>4 DEF BatchFindings
  <2>5. ASSUME NEW actor, NEW digest, FinishReview(actor, digest, version)
        PROVE  UNCHANGED <<currentRevision, snapshots>>
    BY <2>5 DEF FinishReview
  <2>6. ASSUME NEW answers, NEW actor, BatchRespond(answers, actor, version)
        PROVE  UNCHANGED <<currentRevision, snapshots>>
    BY <2>6 DEF BatchRespond
  <2>7. ASSUME NEW actor, Approves(actor) \/ IssueCredential(actor, version)
        PROVE  UNCHANGED <<currentRevision, snapshots>>
    BY <2>7 DEF Approves, Sign, IssueCredential
  <2> QED BY <2>1, <2>2, <2>3, <2>4, <2>5, <2>6, <2>7 DEF Steps, BatchCues, ReworkCues
<1> QED BY <1>1, <1>2

\* Whatever is submitted, edited or reviewed later, a frozen candidate stays
\* and stays the same.
THEOREM SnapshotsStayFrozen == Spec => SnapshotsImmutable
<1>1. ASSUME TypeInv, [Next]_vars, NEW r \in DOMAIN snapshots
      PROVE  r \in DOMAIN snapshots' /\ snapshots'[r] = snapshots[r]
  <2>1. CASE UNCHANGED snapshots BY <2>1
  <2>2. ASSUME NEW actor \in Actor, Submit(actor, version)
        PROVE  r \in DOMAIN snapshots' /\ snapshots'[r] = snapshots[r]
    BY <1>1, <2>2, SubmitFreezes
  <2> QED BY <1>1, <2>1, <2>2, OnlySubmitFreezes
<1>2. TypeInv /\ [Next]_vars =>
        [\A r \in DOMAIN snapshots :
           r \in DOMAIN snapshots' /\ snapshots'[r] = snapshots[r]]_vars
  BY <1>1
<1> QED BY <1>2, InitType, StepType, PTL DEF Spec, SnapshotsImmutable

-----------------------------------------------------------------------------
(* The job and its last candidate. *)

FrozenInv == TypeInv /\ FrozenCandidate

LEMMA FrozenStep == FrozenInv /\ [Next]_vars => FrozenInv'
<1> SUFFICES ASSUME FrozenInv, [Next]_vars PROVE FrozenCandidate'
  BY StepType DEF FrozenInv
<1>0. CASE UNCHANGED vars
  BY <1>0 DEF FrozenInv, FrozenCandidate, vars
<1>1. ASSUME NEW next \in Metadata, ReviseMetadata(next, version)
      PROVE  FrozenCandidate'
  BY <1>1 DEF ReviseMetadata, MayRevise, FrozenCandidate, Editable
<1>2. ASSUME NEW edits \in SUBSET CueEdit, ApplyCueEdits(edits, version)
      PROVE  FrozenCandidate'
  BY <1>2 DEF ApplyCueEdits, MayEdit, FrozenCandidate
<1>3. ASSUME NEW actor \in Actor, Submit(actor, version)
      PROVE  FrozenCandidate'
  <2>1. /\ currentRevision \in Nat
        /\ currentRevision' = currentRevision + 1
        /\ snapshots' = [r \in 1..(currentRevision + 1) |->
             IF r = currentRevision + 1 THEN Candidate(actor) ELSE snapshots[r]]
    BY <1>3, SubmitFreezes DEF FrozenInv
  <2>2. currentRevision' \in DOMAIN snapshots' /\ snapshots'[currentRevision'] = Candidate(actor)
    BY <2>1
  <2>3. cues' = cues /\ submittedBy' = actor
    BY <1>3 DEF Submit
  <2> QED BY <2>2, <2>3 DEF FrozenCandidate, Candidate
<1>4. ASSUME UNCHANGED <<cues, snapshots, currentRevision, submittedBy>>,
             status \in Editable => status' \in Editable
      PROVE  FrozenCandidate'
  BY <1>4 DEF FrozenInv, FrozenCandidate
<1>5. ASSUME NEW reports, NEW links, NEW actor, BatchFindings(reports, links, actor, version)
      PROVE  FrozenCandidate'
  BY <1>4, <1>5 DEF BatchFindings
<1>6. ASSUME NEW actor, NEW digest, FinishReview(actor, digest, version)
      PROVE  FrozenCandidate'
  BY <1>4, <1>6 DEF FinishReview, Editable
<1>7. ASSUME NEW answers, NEW actor, BatchRespond(answers, actor, version)
      PROVE  FrozenCandidate'
  BY <1>4, <1>7 DEF BatchRespond
<1>8. ASSUME NEW actor, Approves(actor) \/ IssueCredential(actor, version)
      PROVE  FrozenCandidate'
  BY <1>4, <1>8 DEF Approves, Sign, IssueCredential, Editable
<1>9. CASE Next
  <2>1. Steps BY <1>9, NextSteps DEF FrozenInv, TypeInv
  <2> QED BY <2>1, <1>1, <1>2, <1>3, <1>5, <1>6, <1>7, <1>8 DEF Steps, BatchCues, ReworkCues
<1> QED BY <1>0, <1>9

LEMMA FrozenAlways == Spec => []FrozenInv
<1>1. Init => FrozenInv
  BY InitType DEF FrozenInv, FrozenCandidate, Init, Editable
<1> QED BY <1>1, FrozenStep, PTL DEF Spec

\* From submission to delivery the working cues are those of the last
\* candidate and have its digest.
THEOREM ReviewedIsFrozen == Spec => []FrozenCandidate
<1>1. FrozenInv => FrozenCandidate BY DEF FrozenInv
<1> QED BY <1>1, FrozenAlways, PTL

\* Every candidate meets the rules under the metadata the job has now: the one
\* operation that changes the metadata is over before the first is frozen.
THEOREM CandidatesDeliverable == Spec => []SnapshotsDeliverable
<1> DEFINE Inv == TypeInv /\ SnapshotsDeliverable
<1>1. Init => Inv
  BY InitType DEF SnapshotsDeliverable, Init
<1>2. Inv /\ [Next]_vars => Inv'
  <2> SUFFICES ASSUME Inv, [Next]_vars PROVE SnapshotsDeliverable'
    BY StepType
  <2>1. ASSUME NEW actor \in Actor, Submit(actor, version)
        PROVE  SnapshotsDeliverable'
    <3>1. /\ currentRevision \in Nat
          /\ DOMAIN snapshots = 1..currentRevision
          /\ snapshots' = [r \in 1..(currentRevision + 1) |->
               IF r = currentRevision + 1 THEN Candidate(actor) ELSE snapshots[r]]
      BY <2>1, SubmitFreezes
    <3>2. meta' = meta BY <2>1 DEF Submit
    <3>3. /\ Present(cues) # {}
          /\ CueQualityIssues(cues, meta.duration) = {}
          /\ CoverageIssues(cues, meta) = {}
      BY <2>1 DEF Submit, CanSubmit
    <3>4. Candidate(actor).cues = cues BY DEF Candidate
    <3> SUFFICES ASSUME NEW r \in 1..(currentRevision + 1)
                 PROVE  /\ Present(snapshots'[r].cues) # {}
                        /\ CueQualityIssues(snapshots'[r].cues, meta.duration) = {}
                        /\ CoverageIssues(snapshots'[r].cues, meta) = {}
      BY <3>1, <3>2 DEF SnapshotsDeliverable
    <3>5. CASE r = currentRevision + 1 BY <3>1, <3>3, <3>4, <3>5
    <3>6. CASE r # currentRevision + 1
      <4>1. r \in DOMAIN snapshots /\ snapshots'[r] = snapshots[r] BY <3>1, <3>6
      <4> QED BY <4>1 DEF SnapshotsDeliverable
    <3> QED BY <3>5, <3>6
  <2>2. CASE UNCHANGED <<snapshots, meta>>
    BY <2>2 DEF SnapshotsDeliverable
  <2>3. CASE UNCHANGED <<currentRevision, snapshots>> /\ meta' # meta
    <3>1. status = "draft"
      <4>1. Next BY <2>3 DEF vars
      <4>2. Steps BY <4>1, NextSteps DEF TypeInv
      <4>3. \E next \in Metadata : ReviseMetadata(next, version)
        BY <2>3, <4>2
        DEF Steps, BatchCues, ReworkCues, ApplyCueEdits, Submit, BatchFindings,
            FinishReview, BatchRespond, Approves, Sign, IssueCredential
      <4> QED BY <4>3 DEF ReviseMetadata, MayRevise
    <3>2. DOMAIN snapshots = {}
      BY <3>1 DEF TypeInv, TypeOK, Counters
    <3> QED BY <2>3, <3>2 DEF SnapshotsDeliverable
  <2> QED BY <2>1, <2>2, <2>3, OnlySubmitFreezes
<1> QED BY <1>1, <1>2, PTL DEF Spec

-----------------------------------------------------------------------------
(* The job implements the lifecycle. *)

\* The digests of the candidates, as the lifecycle sees them.
CandidateDigests == [r \in 1..currentRevision |-> snapshots[r].contentDigest]
DeliveredDigest ==
    IF credential = NoCredential THEN NoCredential ELSE credential.contentDigest

LEMMA DigestsOfCandidates ==
    ASSUME TypeInv
    PROVE  /\ CandidateDigests \in Seq(Digests)
           /\ Len(CandidateDigests) = currentRevision
BY DEF CandidateDigests, TypeInv, TypeOK, Snapshot, Version

LEMMA StartsAsLifecycle == Init => Lifecycle!Init
<1> SUFFICES ASSUME Init PROVE Lifecycle!Init
  OBVIOUS
<1>1. TypeInv BY InitType
<1>2. ContentDigest(cues) \in Digests
  BY <1>1, DigestType DEF TypeInv, TypeOK
<1>3. CandidateDigests = <<>> BY DEF Init, CandidateDigests
<1> QED BY <1>2, <1>3 DEF Init, Lifecycle!Init, Phase, CandidateDigests

LEMMA StepsAsLifecycle ==
    ASSUME FrozenInv, [Next]_vars
    PROVE  [Lifecycle!Next]_(Lifecycle!vars)
<1> DEFINE Quiet == UNCHANGED <<Phase[status], ContentDigest(cues), CandidateDigests,
                                DeliveredDigest>>
<1>1. FrozenInv /\ FrozenInv' BY FrozenStep
<1>2. /\ ContentDigest(cues) \in Digests /\ ContentDigest(cues') \in Digests
      /\ currentRevision \in Nat
  BY <1>1, DigestType DEF FrozenInv, TypeInv, TypeOK, Version
<1>3. Quiet => [Lifecycle!Next]_(Lifecycle!vars)
  BY DEF Lifecycle!vars, CandidateDigests, DeliveredDigest
<1>4. UNCHANGED <<currentRevision, snapshots>> => UNCHANGED CandidateDigests
  BY DEF CandidateDigests
<1>5. UNCHANGED credential => UNCHANGED DeliveredDigest
  BY DEF DeliveredDigest
<1>6. UNCHANGED cues => UNCHANGED ContentDigest(cues)
  OBVIOUS
<1> HIDE DEF Quiet
<1>7. ASSUME UNCHANGED <<status, cues, currentRevision, snapshots, credential>>
      PROVE  [Lifecycle!Next]_(Lifecycle!vars)
  BY <1>3, <1>4, <1>5, <1>6, <1>7 DEF Quiet
<1>8. ASSUME NEW edits \in SUBSET CueEdit, ApplyCueEdits(edits, version)
      PROVE  Lifecycle!Edit
  <2>1. /\ status \in Editable
        /\ UNCHANGED <<status, currentRevision, snapshots, credential>>
    BY <1>8 DEF ApplyCueEdits, MayEdit
  <2>2. Phase[status] = "editing" BY <2>1 DEF Editable, Phase
  <2> QED BY <1>2, <1>4, <1>5, <2>1, <2>2
    DEF Lifecycle!Edit, CandidateDigests, DeliveredDigest
<1>9. ASSUME NEW actor \in Actor, Submit(actor, version)
      PROVE  Lifecycle!Freeze
  <2>1. /\ status \in Editable /\ status' = "in_review"
        /\ UNCHANGED <<cues, credential>>
    BY <1>9 DEF Submit, CanSubmit, MayEdit
  <2>2. Phase[status] = "editing" /\ Phase[status'] = "reviewing"
    BY <2>1 DEF Editable, Phase
  <2>3. /\ currentRevision' = currentRevision + 1
        /\ snapshots' = [r \in 1..(currentRevision + 1) |->
             IF r = currentRevision + 1 THEN Candidate(actor) ELSE snapshots[r]]
    BY <1>9, SubmitFreezes DEF FrozenInv
  <2>4. CandidateDigests \in Seq(Digests) /\ Len(CandidateDigests) = currentRevision
    BY <1>1, DigestsOfCandidates DEF FrozenInv
  <2>5. CandidateDigests' = Append(CandidateDigests, ContentDigest(cues))
    <3>1. CandidateDigests' = [r \in 1..(currentRevision + 1) |->
             IF r = currentRevision + 1 THEN ContentDigest(cues)
                                        ELSE snapshots[r].contentDigest]
      BY <1>2, <2>3 DEF CandidateDigests, Candidate
    <3>2. /\ CandidateDigests' \in Seq(Digests)
          /\ Len(CandidateDigests') = currentRevision + 1
      BY <1>1, <2>3 DEF CandidateDigests, FrozenInv, TypeInv, TypeOK, Snapshot, Version
    <3>3. \A r \in 1..currentRevision : CandidateDigests[r] = snapshots[r].contentDigest
      BY DEF CandidateDigests
    <3>4. \A r \in 1..(currentRevision + 1) :
             CandidateDigests'[r] = Append(CandidateDigests, ContentDigest(cues))[r]
      <4> SUFFICES ASSUME NEW r \in 1..(currentRevision + 1)
                   PROVE  CandidateDigests'[r]
                            = Append(CandidateDigests, ContentDigest(cues))[r]
        OBVIOUS
      <4>1. CASE r = currentRevision + 1
        BY <1>2, <2>4, <3>1, <4>1, AppendProperties
      <4>2. CASE r \in 1..currentRevision
        BY <1>2, <2>4, <3>1, <3>3, <4>2, AppendProperties
      <4>3. r = currentRevision + 1 \/ r \in 1..currentRevision
        BY <1>2
      <4> QED BY <4>1, <4>2, <4>3
    <3> QED BY <1>2, <2>4, <3>2, <3>4, AppendProperties, SeqEqual
  <2> QED BY <1>5, <2>1, <2>2, <2>5 DEF Lifecycle!Freeze, CandidateDigests, DeliveredDigest
<1>10. ASSUME NEW actor \in Actor, NEW digest, FinishReview(actor, digest, version)
       PROVE  Lifecycle!Conclude
  <2>1. /\ status = "in_review" /\ status' \in {"rework", "pending_approval"}
        /\ UNCHANGED <<cues, currentRevision, snapshots, credential>>
    BY <1>10 DEF FinishReview
  <2>2. Phase[status] = "reviewing" /\ Phase[status'] \in {"editing", "passed"}
    BY <2>1 DEF Phase
  <2> QED BY <1>4, <1>5, <2>1, <2>2 DEF Lifecycle!Conclude, CandidateDigests, DeliveredDigest
<1>11. ASSUME NEW actor \in Actor, Approves(actor)
       PROVE  Lifecycle!Sign
  <2>1. /\ status = "pending_approval" /\ status' = "approved"
        /\ UNCHANGED <<cues, currentRevision, snapshots, credential>>
    BY <1>11 DEF Approves, Sign
  <2>2. Phase[status] = "passed" /\ Phase[status'] = "signed"
    BY <2>1 DEF Phase
  <2> QED BY <1>4, <1>5, <2>1, <2>2 DEF Lifecycle!Sign, CandidateDigests, DeliveredDigest
<1>12. ASSUME NEW actor \in Actor, IssueCredential(actor, version)
       PROVE  Lifecycle!Deliver
  <2>1. /\ status = "approved" /\ status' = "credentialed"
        /\ UNCHANGED <<cues, currentRevision, snapshots>>
        /\ credential'.contentDigest = ContentDigest(cues)
        /\ credential'.revision = currentRevision
    BY <1>12 DEF IssueCredential
  <2>2. Phase[status] = "signed" /\ Phase[status'] = "delivered"
    BY <2>1 DEF Phase
  <2>3. /\ currentRevision \in 1..currentRevision
        /\ snapshots[currentRevision].contentDigest = ContentDigest(cues)
    BY <1>1, <2>1 DEF FrozenInv, FrozenCandidate, TypeInv, TypeOK, Editable
  <2>4. /\ Len(CandidateDigests) = currentRevision
        /\ CandidateDigests[currentRevision] = ContentDigest(cues)
    BY <1>2, <2>3 DEF CandidateDigests
  <2>5. credential' # NoCredential
    <3>1. credential' \in Credential
      BY <1>1, <1>12, CredentialWritten DEF FrozenInv
    <3> QED BY <3>1, SentinelAssumption
  <2>6. DeliveredDigest' = CandidateDigests[Len(CandidateDigests)]
    BY <2>1, <2>4, <2>5 DEF DeliveredDigest
  <2> QED BY <1>4, <2>1, <2>2, <2>6 DEF Lifecycle!Deliver, CandidateDigests, DeliveredDigest
<1>13. CASE UNCHANGED vars BY <1>7, <1>13 DEF vars
<1>14. ASSUME NEW next \in Metadata, ReviseMetadata(next, version)
       PROVE  [Lifecycle!Next]_(Lifecycle!vars)
  BY <1>7, <1>14 DEF ReviseMetadata
<1>15. ASSUME NEW reports, NEW links, NEW actor, BatchFindings(reports, links, actor, version)
       PROVE  [Lifecycle!Next]_(Lifecycle!vars)
  BY <1>7, <1>15 DEF BatchFindings
<1>16. ASSUME NEW answers, NEW actor, BatchRespond(answers, actor, version)
       PROVE  [Lifecycle!Next]_(Lifecycle!vars)
  BY <1>7, <1>16 DEF BatchRespond
<1>17. CASE Next
  <2>1. Steps BY <1>17, NextSteps DEF FrozenInv, TypeInv
  <2>2. Lifecycle!Edit \/ Lifecycle!Freeze \/ Lifecycle!Conclude \/ Lifecycle!Sign
           \/ Lifecycle!Deliver => [Lifecycle!Next]_(Lifecycle!vars)
    BY DEF Lifecycle!Next
  <2> QED BY <2>1, <2>2, <1>8, <1>9, <1>10, <1>11, <1>12, <1>14, <1>15, <1>16
    DEF Steps, BatchCues, ReworkCues
<1> QED BY <1>13, <1>17

\* Through the digests it shows, the job is a lifecycle: it is edited, frozen,
\* reviewed, signed and delivered in that order, and what is delivered is the
\* last candidate that was frozen.
THEOREM JobImplementsLifecycle == Spec => ImplementsLifecycle
<1>1. FrozenInv /\ [Next]_vars => [Lifecycle!Next]_(Lifecycle!vars)
  BY StepsAsLifecycle
<1> QED BY <1>1, StartsAsLifecycle, FrozenAlways, PTL
  DEF Spec, ImplementsLifecycle, Lifecycle!Spec

=============================================================================
