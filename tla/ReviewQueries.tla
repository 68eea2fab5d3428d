---------------------------- MODULE ReviewQueries ----------------------------
(***************************************************************************)
(* What a review job answers without changing: the preview of a batch of   *)
(* cue edits, the difference of two frozen candidates and the summary of   *)
(* the findings of each round.  They read the variables of ReviewJob, and  *)
(* people decide on them what to send next.                                *)
(***************************************************************************)
EXTENDS ReviewJob

CONSTANT Category       \* Category[w]: the category of a finding worded w

ASSUME CategoryAssumption == DOMAIN Category = Wording

-----------------------------------------------------------------------------
(* PreviewCueEdits.  Operations come as a sequence; unlike ApplyCueEdits    *)
(* the preview goes on after an issue, to report them all at once.          *)

\* The operations on a cue no earlier operation names.
FirstOnCue(ops) == {i \in DOMAIN ops : \A k \in 1..(i - 1) : ops[k].id # ops[i].id}

Misplaced_Bug(op) == op.op = "add" /\ op.id \in Present(cues)
Misplaced(op) == (op.op = "add") <=> (op.id \in Present(cues))

\* The cues after the operations that can be carried out.
Previewed(ops) ==
    Edited(cues, {ops[i] : i \in {k \in FirstOnCue(ops) : ~ Misplaced(ops[k])}})

Whole(code, found) == IF found THEN {<<code, 0>>} ELSE {}

\* The <<code, place>> pairs of the issues of the batch itself; a place is an
\* index of ops, or 0 for the batch as a whole.
BatchIssues(ops, expected) ==
         Whole("VERSION_MISMATCH", expected # version)
    \cup Whole("STATUS_NOT_EDITABLE", ~ MayEdit)
    \cup Whole("EMPTY_BATCH", ops = <<>>)
    \cup Whole("BATCH_LIMIT_EXCEEDED", Len(ops) > MaxCueBatchOperations)
    \cup Whole("EMPTY_CANDIDATE", Present(Previewed(ops)) = {})
    \cup {<<"DUPLICATE_CUE_ID", i>> : i \in DOMAIN ops \ FirstOnCue(ops)}
    \cup {<<IF ops[i].op = "add" THEN "CUE_ALREADY_EXISTS" ELSE "CUE_NOT_FOUND", i>> :
            i \in {k \in FirstOnCue(ops) : Misplaced(ops[k])}}

\* An issue of a cue is put at the operation on that cue, if there is one.
Placed(issues, ops) ==
    {<<issue[1], IF \E i \in FirstOnCue(ops) : ops[i].id = issue[2]
                 THEN CHOOSE i \in FirstOnCue(ops) : ops[i].id = issue[2]
                 ELSE 0>> : issue \in issues}

PreviewIssues_Bug(ops, expected) ==
         BatchIssues(ops, expected)
    \cup Placed(CueQualityIssues(Previewed(ops), meta.duration), ops)
PreviewIssues(ops, expected) ==
         BatchIssues(ops, expected)
    \cup Placed(CueQualityIssues(Previewed(ops), meta.duration), ops)
    \cup Placed(CoverageIssues(Previewed(ops), meta), ops)

PreviewCueEdits(ops, expected) ==
    LET issues == PreviewIssues(ops, expected) IN
    [importable    |-> issues = {},
     issues        |-> issues,
     refusedItems  |-> {issue[2] : issue \in issues} \ {0},
     affected      |-> {ops[i].id : i \in FirstOnCue(ops)},
     cueCount      |-> Cardinality(Present(Previewed(ops))),
     contentDigest |-> ContentDigest(Previewed(ops))]

-----------------------------------------------------------------------------
(* Diff.  Text and speaker are one content here, so the two kinds of change *)
(* of a cue that keeps its times are one kind.                              *)

Compared(a, b) == Present(a) \cup Present(b)

DiffKind(a, b, id) ==
    CASE id \notin Present(a)      -> "added"
      [] id \notin Present(b)      -> "deleted"
      [] a[id].text # b[id].text   -> "content_changed"
      [] OTHER                     -> "timeline_changed"

LinkedFindings_Bug(id, to) ==
    {f \in Reported : findings[f].candidateRevision = to /\ findings[f].cue = id}
LinkedFindings(id, to) ==
    {f \in Reported : findings[f].responseRevision = to /\ findings[f].cue = id}

Diff(from, to) ==
    LET a == snapshots[from].cues
        b == snapshots[to].cues
    IN  {[cueID |-> id, kind |-> DiffKind(a, b, id), before |-> a[id], after |-> b[id],
          linkedFindings |-> LinkedFindings(id, to),
          anomaly |-> LinkedFindings(id, to) = {}] :
            id \in {i \in Compared(a, b) : a[i] # b[i]}}

-----------------------------------------------------------------------------
(* FindingSummary.  Times of waiting and resolution are left out. *)

SummaryKey_Bug(f) == <<findings[f].reviewRound, Category[findings[f].wording], "any">>
SummaryKey(f) ==
    <<findings[f].reviewRound, Category[findings[f].wording], findings[f].severity>>

\* Round 0 stands for all rounds.
FindingSummary(round) ==
    LET asked == IF round > 0 THEN InRound(round) ELSE Reported
        Row(key) ==
            LET G == {f \in asked : SummaryKey(f) = key} IN
            [reviewRound |-> key[1], category |-> key[2], severity |-> key[3],
             total       |-> Cardinality(G),
             new         |-> Cardinality({f \in G : findings[f].previousFindingID = NoFinding}),
             resolved    |-> Cardinality(G \cap Answered),
             unresolved  |-> Cardinality(G \ Answered)]
    IN  {Row(SummaryKey(f)) : f \in asked}

-----------------------------------------------------------------------------
(* Safety. *)

Arrangements(S) ==
    {o \in [1..Cardinality(S) -> S] : \A x \in S : \E i \in DOMAIN o : o[i] = x}
OrderedBatch == UNION {Arrangements(S) : S \in EditBatch}
Operations(ops) == {ops[i] : i \in DOMAIN ops}

\* The preview of a batch tells what sending it would do, in whatever order its
\* operations stand: it finds nothing but holes in the coverage, which an edit
\* may leave, exactly when ApplyCueEdits accepts the batch, and then the digest
\* it announces is the one the job gets.  The two are separate walks over the
\* operations, one stopping at the first problem, the other going on.
PreviewAgrees ==
    \A ops \in OrderedBatch :
        LET edits == Operations(ops)
            preview == PreviewCueEdits(ops, version)
            applies == MayEdit /\ EditsApply(cues, edits, meta.duration)
        IN  /\ applies <=>
                 preview.issues \subseteq Placed(CoverageIssues(Previewed(ops), meta), ops)
            /\ applies => preview.contentDigest = ContentDigest(Edited(cues, edits))

\* A draft that is sent a batch previewed as importable can be submitted next.
ImportableIsSubmittable ==
    [][\A ops \in OrderedBatch :
         /\ status = "draft"
         /\ BatchCues(Operations(ops), version)
         /\ PreviewCueEdits(ops, version).importable
         => CanSubmit']_vars

\* The difference of the candidate a severe finding was about and the one its
\* answer was frozen in shows the change that answers it: the cue is listed,
\* linked to the finding, with the content answered.
AnswersShowInDiff ==
    \A f \in Reported :
        LET x == findings[f] IN
        Severe(f) /\ f \in Answered /\ x.responseRevision \in DOMAIN snapshots =>
            \E d \in Diff(x.candidateRevision, x.responseRevision) :
                /\ d.cueID = x.cue
                /\ f \in d.linkedFindings
                /\ d.kind # "deleted"
                /\ ContentHash(d.after) = x.responseCueHash

\* The summary a manager reads adds up to the statistics a reviewer signed, of
\* every round and severity, for good: nothing is reported in a round after its
\* conclusion.  It shows a severe finding as unresolved only while the rework that
\* conclusion asked for is under way.
SummaryMatchesConclusions ==
    \A i \in DOMAIN conclusions :
        LET signed == conclusions[i]
            rows == FindingSummary(signed.reviewRound)
            Sum(of, s) == LET R == {r \in rows : r.severity = s}
                          IN  Cardinality(UNION {{<<r, n>> : n \in 1..of[r]} : r \in R})
            total == [r \in rows |-> r.total]
            unresolved == [r \in rows |-> r.unresolved]
        IN  /\ \A s \in Severity : Sum(total, s) = signed.findingSummary.bySeverity[s]
            /\ \A s \in {"blocking", "high"} :
                  Sum(unresolved, s) > 0 =>
                      signed.resultStatus = "rework" /\ status = "rework"

=============================================================================
