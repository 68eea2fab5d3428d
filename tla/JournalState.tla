---------------------------- MODULE JournalState -----------------------------
(***************************************************************************)
(* What the store of internal/journal holds, in memory and in its file     *)
(* (persistedState): jobs, credentials, idempotency records and the event  *)
(* log, whose events are chained by their digests.  SHA-256 is injective   *)
(* here: a digest is the tuple it is computed from.                        *)
(***************************************************************************)
EXTENDS Naturals, Sequences

CONSTANTS
    JobId,      \* identifiers of jobs
    Key,        \* keys of idempotency records
    NoKey       \* the empty key

ASSUME NoKeyAssumption == NoKey \notin Key

\* No entry in a map: not a job, a credential, a record or an identifier.
Nothing == [entry |-> "none"]

ASSUME NothingAssumption == Nothing \notin JobId

EmptyState ==
    [jobs           |-> [j \in JobId |-> Nothing],
     credentials    |-> [j \in JobId |-> Nothing],
     idempotency    |-> [k \in Key |-> Nothing],
     events         |-> <<>>,
     sequence       |-> 0,
     previousDigest |-> <<>>]

\* The actor and the time of an event are not part of its digest.
EventRecordDigest(e) ==
    <<e.sequence, e.type, e.job, e.version, e.data, e.previousDigest>>

\* appendLocked: the event of write w to state s.
NewEvent(s, w) ==
    LET e == [sequence |-> s.sequence + 1, type |-> w.type, job |-> w.job,
              version |-> w.body.version, actor |-> w.actor, data |-> w.data,
              previousDigest |-> s.previousDigest, digest |-> <<>>]
    IN  [e EXCEPT !.digest = EventRecordDigest(e)]

\* A seeded fault: the sequence number stays behind.
Applied_Bug(s, w) ==
    [jobs           |-> [s.jobs EXCEPT ![w.job] = w.body],
     credentials    |-> IF w.credential = Nothing THEN s.credentials
                        ELSE [s.credentials EXCEPT ![w.job] = w.credential],
     idempotency    |-> IF w.key = NoKey THEN s.idempotency
                        ELSE [s.idempotency EXCEPT ![w.key] = w.record],
     events         |-> Append(s.events, NewEvent(s, w)),
     sequence       |-> s.sequence,
     previousDigest |-> NewEvent(s, w).digest]

\* What a write leaves in state s.  Save has no key and no credential, Create
\* and SaveIdempotent have a key, CommitCredential has both.
Applied(s, w) ==
    [jobs           |-> [s.jobs EXCEPT ![w.job] = w.body],
     credentials    |-> IF w.credential = Nothing THEN s.credentials
                        ELSE [s.credentials EXCEPT ![w.job] = w.credential],
     idempotency    |-> IF w.key = NoKey THEN s.idempotency
                        ELSE [s.idempotency EXCEPT ![w.key] = w.record],
     events         |-> Append(s.events, NewEvent(s, w)),
     sequence       |-> s.sequence + 1,
     previousDigest |-> NewEvent(s, w).digest]

\* Verify: the chain from the first event to the head the state keeps.
Linked(E, i) ==
    /\ E[i].digest = EventRecordDigest(E[i])
    /\ E[i].previousDigest = IF i = 1 THEN <<>> ELSE E[i - 1].digest
    /\ i > 1 => E[i].sequence = E[i - 1].sequence + 1

Verify(s) ==
    LET n == Len(s.events) IN
    /\ \A i \in 1..n : Linked(s.events, i)
    /\ s.sequence = IF n = 0 THEN 0 ELSE s.events[n].sequence
    /\ s.previousDigest = IF n = 0 THEN <<>> ELSE s.events[n].digest

\* The events of a job: they carry their numbers, so the set of them is the list,
\* and the newest is its last.
EventsOf(s, j) == {s.events[i] : i \in {n \in DOMAIN s.events : s.events[n].job = j}}

Newest(E) == {e \in E : \A f \in E : f.sequence <= e.sequence}

=============================================================================
