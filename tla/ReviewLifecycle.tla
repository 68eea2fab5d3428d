--------------------------- MODULE ReviewLifecycle ---------------------------
(***************************************************************************)
(* What the service promises of one job, whatever the operations behind it *)
(* are: content changes only while it is being edited; each submission     *)
(* freezes the content as the next candidate; a review either returns the  *)
(* job to editing or passes it; what has passed is signed and then         *)
(* delivered, once, and what is delivered is the last frozen candidate.    *)
(***************************************************************************)
EXTENDS Naturals, Sequences

CONSTANTS Content, Nothing

VARIABLES phase, content, candidates, delivered

vars == <<phase, content, candidates, delivered>>

Init ==
    /\ phase = "editing"
    /\ content \in Content
    /\ candidates = <<>>
    /\ delivered = Nothing

Edit ==
    /\ phase = "editing"
    /\ content' \in Content
    /\ UNCHANGED <<phase, candidates, delivered>>

Freeze ==
    /\ phase = "editing"
    /\ phase' = "reviewing"
    /\ candidates' = Append(candidates, content)
    /\ UNCHANGED <<content, delivered>>

Conclude ==
    /\ phase = "reviewing"
    /\ phase' \in {"editing", "passed"}
    /\ UNCHANGED <<content, candidates, delivered>>

Sign ==
    /\ phase = "passed"
    /\ phase' = "signed"
    /\ UNCHANGED <<content, candidates, delivered>>

Deliver ==
    /\ phase = "signed"
    /\ phase' = "delivered"
    /\ delivered' = candidates[Len(candidates)]
    /\ UNCHANGED <<content, candidates>>

Next == Edit \/ Freeze \/ Conclude \/ Sign \/ Deliver

Spec == Init /\ [][Next]_vars

=============================================================================
