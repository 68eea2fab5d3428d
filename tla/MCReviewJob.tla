----------------------------- MODULE MCReviewJob -----------------------------
(* Small review jobs for TLC. *)
EXTENDS ReviewQueries, TLC

CONSTANTS ann, bob, cyd, f1, f2, Slack

MCRuneCount == [a |-> 10, b |-> 10, c |-> 10, blank |-> 2, exact |-> 114,
                full |-> 25, over |-> 26]
MCText == DOMAIN MCRuneCount
MCPrinted == [t \in MCText |-> t]
MCGapThreshold == ("broadcast-v1" :> 1000) @@ ("broadcast-v2" :> 750)
MCRuleSet == DOMAIN MCGapThreshold

\* The (characters, milliseconds) pairs at exactly 25 characters per second,
\* up to six seconds, that float64 arithmetic puts above 25.
MCRoundsAbove == {<<57, 2280>>, <<69, 2760>>, <<113, 4520>>, <<114, 4560>>,
                  <<115, 4600>>, <<138, 5520>>}
MCNormal == [typo |-> "typo", spacedTypo |-> "typo"]
MCWording == DOMAIN MCNormal
MCCategory == [typo |-> "text", spacedTypo |-> "text"]

Set(id, c) == [op |-> "update", id |-> id, cue |-> c]
Add(id, c) == [op |-> "add", id |-> id, cue |-> c]
Del(id)    == [op |-> "delete", id |-> id, cue |-> NoCue]

C(from, to, text) == [start |-> from, end |-> to, text |-> text]
M(duration, rules) == [complete |-> TRUE, duration |-> duration, ruleSet |-> rules]
F(id, severity, wording) == [cue |-> id, severity |-> severity, wording |-> wording]

-----------------------------------------------------------------------------
(* rounds: one cue, three people, as far as a third submission would be. *)

RoundsCue == {C(0, 2000, t) : t \in {"a", "b", "c"}}
RoundsMetadata == {M(2000, "broadcast-v1")}
RoundsEditBatch == {{Set(1, c)} : c \in RoundsCue}
RoundsReport == {F(1, s, "typo") : s \in {"blocking", "medium"}}

\* Bound on idling: a revision takes five steps of its own, and Slack more.
Pace == version <= 5 * currentRevision + 1 + Slack

Symmetry == Permutations({ann, bob, cyd}) \cup Permutations({f1, f2})

-----------------------------------------------------------------------------
(* people: every role and every outcome of one review, anonymous requests    *)
(* included, and reports that are incomplete or differ only in blanks.       *)

PeopleCue == {C(0, 2000, t) : t \in {"a", "b"}}
PeopleEditBatch == {{Set(1, C(0, 2000, "b"))}}
PeopleReport == {F(1, "high", "typo"), F(1, "low", "typo"), F(1, "low", "spacedTypo"),
                 F(1, "urgent", "typo")}

-----------------------------------------------------------------------------
(* answers: two cues and two findings in one rework. *)

AnswersCue == {C(0, 1000, t) : t \in {"a", "b"}} \cup {C(1000, 2000, t) : t \in {"a", "b"}}
AnswersEditBatch ==
    {{Set(1, C(0, 1000, t))} : t \in {"a", "b"}}
    \cup {{Set(2, C(1000, 2000, t))} : t \in {"a", "b"}}
    \cup {{Add(1, C(0, 1000, "a")), Add(2, C(1000, 2000, "a"))},
          {Set(1, C(0, 1000, "b")), Set(2, C(1000, 2000, "b"))}, {Del(1)}, {Del(2)}}
AnswersReport == {F(1, "high", "typo"), F(2, "blocking", "typo")}

-----------------------------------------------------------------------------
(* timeline: up to three cues at the bounds of every rule. *)

TimelineCue ==
    {C(0, 1000, "a"), C(1, 1000, "a"), C(0, 4560, "a"), C(1000, 1750, "a"),
     C(999, 1751, "a"), C(1750, 4560, "a"), C(2000, 4560, "a"), C(2001, 4560, "a"),
     C(1750, 5000, "a"), C(2500, 4560, "a"), C(2501, 4560, "a"), C(1000, 1000, "a"), C(0, 1000, "blank"),
     C(0, 4560, "exact"), C(0, 1000, "full"), C(0, 1000, "over")}
TimelineMetadata ==
    {M(4560, "broadcast-v1"), M(4560, "broadcast-v2"), M(5000, "broadcast-v1"),
     M(0, "broadcast-v1"), M(4560, "broadcast-v3"),
     [complete |-> FALSE, duration |-> 4560, ruleSet |-> "broadcast-v1"]}
TimelineEditBatch ==
    {{Add(1, C(0, 1000, "a")), Add(2, C(1000, 1750, "a")), Add(3, C(2500, 4560, "a"))},
     {Set(1, C(1000, 1750, "a")), Set(2, C(0, 1000, "a"))},
     {Set(1, C(1000, 1750, "a")), Add(3, C(0, 1000, "a"))},
     {Del(1), Add(1, C(0, 1000, "a"))}, {Del(1), Del(2), Del(3)}, {Del(1), Del(2)},
     {Add(1, C(0, 4560, "exact"))}, {}}

=============================================================================
