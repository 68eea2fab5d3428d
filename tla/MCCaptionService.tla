-------------------------- MODULE MCCaptionService ---------------------------
(* Small services for TLC: what clients ask, and where the store starts. *)
EXTENDS CaptionService, TLC

CONSTANTS j1, j2, k1, k2

Ask(actor, kind, job, key, arg) ==
    [actor |-> actor, kind |-> kind, job |-> job, key |-> key, arg |-> arg]
NoArg == [x \in {} |-> x]
Import(cues, base) == [cues |-> cues, baseRevision |-> base]
Meta(title, batch) == [title |-> title, batch |-> batch]

MCKey == {<<"create", k>> : k \in {k1, k2}}
         \cup {<<kind, a, k>> : kind \in {"metadata", "cue-import", "credential"},
                                a \in {"ann", "bob"}, k \in {k1, k2}}

-----------------------------------------------------------------------------
(* Where the store starts: job j1 on its way. *)

After(s, kind, arg, status) ==
    LET r == [actor |-> "ann", kind |-> kind, job |-> j1, arg |-> arg,
              key |-> IF kind = "cue-import" THEN NoKey ELSE k2,
              expected |-> IF Exists(s, j1) THEN s.jobs[j1].version ELSE 0]
    IN  Applied(s, CHOOSE w \in Writes(s, r, s.jobs[j1]) :
                       w.job = j1 /\ w.body.status = status)

Created  == After(EmptyState, "create", Meta("t0", "b0"), "draft")
Imported == After(Created, "cue-import", Import("a", 0), "draft")
InReview == After(Imported, "submit", NoArg, "in_review")
Passed   == After(InReview, "finish", NoArg, "pending_approval")
Approved == After(Passed, "approve", NoArg, "approved")

EmptyStore     == {EmptyState}
DraftingStore  == {Imported, InReview}
WorkingStore   == {Imported, InReview, Approved}

-----------------------------------------------------------------------------
(* What clients ask. *)

CreatingForm ==
    {Ask(a, "create", Nothing, k, Meta("t0", "b0")) : a \in {"ann", "bob"}, k \in {k1, k2}}
    \cup {Ask("ann", "create", Nothing, k, Meta("t1", "b0")) : k \in {k1, k2}}
    \cup {Ask("bob", "create", Nothing, NoKey, Meta("t0", "b0"))}
    \cup {Ask("ann", "metadata", j, k, [title |-> "t2"]) : j \in {j1, j2}, k \in {k1, k2}}

\* Sound for CreatingForm, which treats jobs and keys alike.
Symmetry == Permutations({j1, j2}) \cup Permutations({k1, k2})

DraftingForm ==
    {Ask("ann", "metadata", j1, k1, [title |-> "t1"]),
     Ask("bob", "metadata", j1, k1, [batch |-> "b1"]),
     Ask("ann", "cue-import", j1, k1, Import("b", 0)),
     Ask("bob", "cue-import", j1, NoKey, Import("c", 1)),
     Ask("ann", "submit", j1, NoKey, NoArg),
     Ask("bob", "finish", j1, NoKey, NoArg)}

IssuingForm ==
    {Ask("ann", "credential", j1, k1, NoArg), Ask("ann", "credential", j1, k2, NoArg),
     Ask("bob", "credential", j1, k1, NoArg),
     Ask("ann", "metadata", j1, k1, [title |-> "t1"]),
     Ask("bob", "report", j1, NoKey, NoArg)}

WorkingForm == DraftingForm \cup IssuingForm

Always(s, f) == TRUE

\* Clients ask for what the status they have seen allows, and for imports when it
\* does not; what waits or is sent again meets any other status.
AsksInTurn(s, f) ==
    LET status == s.jobs[j1].status IN
    IF status \in {"approved", "credentialed"} THEN f \in IssuingForm
    ELSE \/ f.kind = "cue-import"
         \/ f.kind = "metadata" /\ f \in DraftingForm /\ status = "draft"
         \/ f.kind = "submit" /\ status \in {"draft", "rework"}
         \/ f.kind = "finish" /\ status = "in_review"

=============================================================================
