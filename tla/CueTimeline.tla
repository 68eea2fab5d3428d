----------------------------- MODULE CueTimeline -----------------------------
(***************************************************************************)
(* The subtitle track of a review job: the rules a candidate is held to    *)
(* and the batch edits that change it.                                     *)
(*                                                                         *)
(* Times are milliseconds.  A cue identifier is a number here, a string in *)
(* the code: all that is used of it is its order, which breaks the ties of *)
(* cues that start together.  A text stands for the speaker and the body   *)
(* of a cue, of which the rules read the number of characters and whether  *)
(* the body is blank.                                                      *)
(***************************************************************************)
EXTENDS Integers, FiniteSets

CONSTANTS
    CueId,          \* the identifiers a cue may carry
    Cue,            \* the cues [start, end, text] that clients may write
    NoCue,          \* "no cue under this identifier"
    Text,           \* speaker and body of a cue
    RuneCount,      \* RuneCount[t]: len([]rune(body))
    Blank,          \* the texts whose body is blank
    Printed,        \* Printed[t]: what "%s|%s" prints of speaker and body
    RuleSet,        \* the rule sets the program knows
    GapThreshold,   \* GapThreshold[r]: longest gap r allows between cues
    RoundsAbove     \* <<runes, ms>> at exactly 25 characters per second for
                    \* which runes / (ms / 1000) exceeds 25 in float64

ASSUME CueIdAssumption == CueId \subseteq Nat /\ IsFiniteSet(CueId)
ASSUME TextAssumption == RuneCount \in [Text -> Nat] /\ Blank \subseteq Text
ASSUME CueAssumption ==
    Cue \subseteq [start : Int, end : Int, text : Text] /\ NoCue \notin Cue
ASSUME RuleSetAssumption == GapThreshold \in [RuleSet -> Nat]
ASSUME RoundsAboveAssumption ==
    RoundsAbove \subseteq {p \in Nat \X Nat : p[1] * 1000 = p[2] * 25}

MaxCueBatchOperations == 100

\* j.Cues: the map from identifiers to cues.
Track == [CueId -> Cue \cup {NoCue}]
EmptyTrack == [id \in CueId |-> NoCue]
Present(track) == {id \in CueId : track[id] # NoCue}

-----------------------------------------------------------------------------
(* Order along the programme: by start, then by identifier. *)

\* A seeded fault: cues that start together are left unordered.
Before_Bug(track, a, b) == track[a].start < track[b].start
Before(track, a, b) ==
    \/ track[a].start < track[b].start
    \/ track[a].start = track[b].start /\ a < b

\* p is the cue just before id in that order.
Precedes(track, p, id) ==
    /\ Before(track, p, id)
    /\ ~ \E q \in Present(track) : Before(track, p, q) /\ Before(track, q, id)

IsFirst(track, id) == ~ \E p \in Present(track) : Before(track, p, id)
IsLast(track, id)  == ~ \E q \in Present(track) : Before(track, id, q)

-----------------------------------------------------------------------------
(* What one cue must satisfy. *)

BadRange(c, duration) ==
    \/ c.start < 0
    \/ c.end <= c.start
    \/ duration > 0 /\ c.end > duration

TooFast(c) ==
    LET ms == c.end - c.start
    IN  \/ RuneCount[c.text] * 1000 > 25 * ms
        \/ <<RuneCount[c.text], ms>> \in RoundsAbove

\* cueQualityIssues: the <<code, cue>> pairs it reports.
CueQualityIssues(track, duration) ==
    LET P == Present(track) IN
         {<<"TIMELINE_RANGE", id>> : id \in {i \in P : BadRange(track[i], duration)}}
    \cup {<<"TEXT_REQUIRED", id>> : id \in {i \in P : track[i].text \in Blank}}
    \cup {<<"READING_SPEED", id>> :
            id \in {i \in P : track[i].end > track[i].start /\ TooFast(track[i])}}
    \cup {<<"OVERLAP", id>> :
            id \in {i \in P : \E p \in P : /\ Precedes(track, p, i)
                                           /\ track[i].start < track[p].end}}

\* coverageIssues: holes of the programme no cue covers.  "limit" is the
\* threshold of the rule set, or the one a preflight query asks for.
CoverageIssuesAt(track, duration, limit) ==
    LET P == Present(track) IN
         {<<"PROGRAM_START_GAP", id>> :
            id \in {i \in P : IsFirst(track, i) /\ track[i].start > 0}}
    \cup {<<"GAP_TOO_LARGE", id>> :
            id \in {i \in P : \E p \in P : /\ Precedes(track, p, i)
                                           /\ track[i].start - track[p].end > limit}}
    \cup {<<"PROGRAM_END_GAP", id>> :
            id \in {i \in P : /\ IsLast(track, i)
                              /\ duration > 0 /\ track[i].end < duration}}

CoverageIssues(track, meta) ==
    CoverageIssuesAt(track, meta.duration, GapThreshold[meta.ruleSet])

\* ValidateCues sorts by start alone, and the sort is not stable: cues that
\* start together come in any order.
StartOrders(track) ==
    LET P == Present(track)
        n == Cardinality(P)
    IN  {o \in [1..n -> P] : /\ \A id \in P : \E i \in 1..n : o[i] = id
                             /\ \A i \in 1..(n - 1) :
                                   track[o[i]].start <= track[o[i + 1]].start}

ValidateCues(track, duration, o) ==
    /\ Present(track) # {}
    /\ \A id \in Present(track) : /\ ~ BadRange(track[id], duration)
                                  /\ track[id].text \notin Blank
                                  /\ ~ TooFast(track[id])
    /\ \A i \in 1..(Cardinality(Present(track)) - 1) :
          track[o[i + 1]].start >= track[o[i]].end

-----------------------------------------------------------------------------
(* Digests.  SHA-256 is taken to be injective on what it is given.  The    *)
(* hash of one cue is over a JSON object and tells speaker from body; the  *)
(* digest of a candidate is over an unescaped line per cue and does not.   *)

ContentHash(c) == <<c.start, c.end, c.text>>

ContentDigest(track) ==
    {<<id, track[id].start, track[id].end, Printed[track[id].text]>> :
        id \in Present(track)}

-----------------------------------------------------------------------------
(* Batches of edits.  A batch is a set: two operations on one cue are      *)
(* refused, so the order of the others does not matter.                    *)

CueEdit == [op : {"add", "update"}, id : CueId, cue : Cue]
           \cup [op : {"delete"}, id : CueId, cue : {NoCue}]

BatchOK(track, edits) ==
    /\ edits # {}
    /\ Cardinality(edits) <= MaxCueBatchOperations
    /\ \A e, f \in edits : e.id = f.id => e = f
    /\ \A e \in edits : (e.op = "add") <=> (e.id \notin Present(track))

Edited(track, edits) ==
    [id \in CueId |->
        IF \E e \in edits : e.id = id
        THEN (CHOOSE e \in edits : e.id = id).cue
        ELSE track[id]]

\* ApplyCueEdits on the cues: what it demands of the batch and of the result.
EditsApply(track, edits, duration) ==
    /\ BatchOK(track, edits)
    /\ Present(Edited(track, edits)) # {}
    /\ CueQualityIssues(Edited(track, edits), duration) = {}

\* The cues a rework edit records as changed.
ChangedCues(track, edits) ==
    {e.id : e \in {f \in edits :
        \/ f.op # "update"
        \/ ContentHash(track[f.id]) # ContentHash(f.cue)}}

=============================================================================
