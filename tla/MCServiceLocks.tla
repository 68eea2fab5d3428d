--------------------------- MODULE MCServiceLocks ----------------------------
(* Requests for TLC: writers, verifications and views of one job. *)
EXTENDS ServiceLocks, TLC

CONSTANTS r1, r2, r3

Ask(method, path, sub, with) == [method |-> method, path |-> path, sub |-> sub, with |-> with]

\* An editor revises metadata, deletes a cue and has edits previewed, an approver
\* signs, issues the credential, creates another job and sends findings to their
\* preflight, and somebody looks at the job and verifies it.
MCForm ==
    r1 :> {Ask("PATCH", "job", "", {}), Ask("DELETE", "cues", "id", {}),
           Ask("POST", "cues", "", {"preflight", "operations"})} @@
    r2 :> {Ask("POST", "approval", "", {}), Ask("POST", "credential", "", {}),
           Ask("POST", "jobs", "", {}),
           Ask("POST", "findings", "preflight", {"findings"})} @@
    r3 :> {Ask("GET", "job", "", {}), Ask("POST", "verify", "", {}),
           Ask("POST", "verify-batch", "", {"credentials"})}

=============================================================================
